---------------------------- MODULE Spec2Model ----------------------------
(***************************************************************************)
(* The response-caching layer of the Sommelier Assistant                   *)
(* (src/src/sommelier/sommelier_ai_assistant.py, src/src/sommelier/app.py):*)
(* query essence and stable cache key, the lookup (direct, fuzzy, food     *)
(* fallback), generation with retries, the write-back and the session      *)
(* metrics.                                                                *)
(*                                                                         *)
(* Text is a TLA+ string, i.e. a sequence of characters, so that Python's  *)
(* `in`, split, replace and strip are computed as the code computes them.  *)
(* None and the empty string are both "": the code only ever tests them    *)
(* for truthiness.                                                         *)
(***************************************************************************)
EXTENDS Integers, Sequences, FiniteSets, TLC

(***************************************************************************)
(* Python string primitives                                                *)
(***************************************************************************)
None == ""

Truthy(x) == x # ""

Whitespace == {" ", "\n", "\t"}

\* F applied to the value of x.  An operator's argument is an expression that is
\* evaluated wherever the operator's body uses it; Let evaluates it once.
Let(x, F(_)) == CHOOSE r \in {F(v) : v \in {x}} : TRUE

MinOf(S0) == Let(S0, LAMBDA S : CHOOSE m \in S : \A n \in S : m <= n)

MaxOf(S0) == Let(S0, LAMBDA S : CHOOSE m \in S : \A n \in S : n <= m)

UpperToLower ==
  [c \in {"A","B","C","D","E","F","G","H","I","J","K","L","M","N","O","P","Q","R","S","T","U","V","W","X","Y","Z"} |->
     CASE c = "A" -> "a" [] c = "B" -> "b" [] c = "C" -> "c" [] c = "D" -> "d" [] c = "E" -> "e"
       [] c = "F" -> "f" [] c = "G" -> "g" [] c = "H" -> "h" [] c = "I" -> "i" [] c = "J" -> "j"
       [] c = "K" -> "k" [] c = "L" -> "l" [] c = "M" -> "m" [] c = "N" -> "n" [] c = "O" -> "o"
       [] c = "P" -> "p" [] c = "Q" -> "q" [] c = "R" -> "r" [] c = "S" -> "s" [] c = "T" -> "t"
       [] c = "U" -> "u" [] c = "V" -> "v" [] c = "W" -> "w" [] c = "X" -> "x" [] c = "Y" -> "y"
       [] c = "Z" -> "z"]

\* the members of a finite set of integers, in increasing order
Ascending(S0) ==
  Let(S0, LAMBDA S : [k \in 1..Cardinality(S) |-> CHOOSE a \in S : Cardinality({b \in S : b < a}) = k - 1])

CharAt(s, i) == SubSeq(s, i, i)

LowerChar(c) == IF c \in DOMAIN UpperToLower THEN UpperToLower[c] ELSE c

\* sep.join(parts)  (computed by halves, to keep the evaluation shallow)
RECURSIVE Join(_, _)
Join(parts0, sep0) ==
  Let(<<parts0, sep0>>, LAMBDA a :
    IF Len(a[1]) = 0 THEN ""
    ELSE IF Len(a[1]) = 1 THEN a[1][1]
    ELSE Join(SubSeq(a[1], 1, Len(a[1]) \div 2), a[2]) \o a[2]
           \o Join(SubSeq(a[1], Len(a[1]) \div 2 + 1, Len(a[1])), a[2]))

\* str.lower()
Lower(s0) == Let(s0, LAMBDA s : Join([i \in 1..Len(s) |-> LowerChar(CharAt(s, i))], ""))

\* str.capitalize() of a role name
Capitalize(s0) ==
  Let(s0, LAMBDA s :
    IF s = "" THEN s
    ELSE LET up == {c \in DOMAIN UpperToLower : UpperToLower[c] = Head(s)}
         IN  (IF up = {} THEN Head(s) ELSE CHOOSE c \in up : TRUE) \o Lower(Tail(s)))

\* s up to its last character outside chars, from its start (left = FALSE) or from
\* its first character outside chars (left = TRUE)
Trimmed(s0, left, chars) ==
  Let(s0, LAMBDA s :
    Let({i \in 1..Len(s) : CharAt(s, i) \notin chars}, LAMBDA keep :
      IF keep = {} THEN "" ELSE SubSeq(s, IF left THEN MinOf(keep) ELSE 1, MaxOf(keep))))

\* str.strip()
Strip(s) == Trimmed(s, TRUE, Whitespace)

\* str.rstrip(chars)
RStrip(s, chars) == Trimmed(s, FALSE, chars)

\* s[:n]
Prefix(s0, n) == Let(s0, LAMBDA s : SubSeq(s, 1, IF Len(s) < n THEN Len(s) ELSE n))

\* s[-n:]
Suffix(s0, n) == Let(s0, LAMBDA s : SubSeq(s, IF Len(s) < n THEN 1 ELSE Len(s) - n + 1, Len(s)))

MatchAt(s, sub, i) == i >= 1 /\ i + Len(sub) - 1 <= Len(s) /\ SubSeq(s, i, i + Len(sub) - 1) = sub

\* sub in s
Contains(s0, sub0) ==
  \E s \in {s0} : \E sub \in {sub0} : \E i \in 1..(Len(s) - Len(sub) + 1) : MatchAt(s, sub, i)

\* any(term in s for term in terms), terms a sequence
ContainsAny(s0, terms) == \E s \in {s0} : \E k \in 1..Len(terms) : Contains(s, terms[k])

\* str.find(sub, from), 1-based, 0 when absent
Find(s, sub, from) ==
  Let({i \in from..(Len(s) - Len(sub) + 1) : MatchAt(s, sub, i)}, LAMBDA at :
    IF at = {} THEN 0 ELSE MinOf(at))

\* str.split(sep): the pieces between the non-overlapping occurrences of sep
SplitOn(s0, sep) ==
  Let(s0, LAMBDA s :
    LET RECURSIVE go(_, _)
        go(from, acc) ==
          Let(Find(s, sep, from), LAMBDA i :
            IF i = 0 THEN Append(acc, SubSeq(s, from, Len(s)))
            ELSE go(i + Len(sep), Append(acc, SubSeq(s, from, i - 1))))
    IN  go(1, <<>>))

\* str.split(): the maximal runs of non-whitespace
SplitWords(s0) ==
  Let(s0, LAMBDA s :
    LET IsWs(i) == i < 1 \/ i > Len(s) \/ CharAt(s, i) \in Whitespace
        End(i)  == MinOf({j \in i..Len(s) : IsWs(j + 1)})
    IN  Let(Ascending({i \in 1..Len(s) : ~IsWs(i) /\ IsWs(i - 1)}), LAMBDA starts :
          [k \in 1..Len(starts) |-> SubSeq(s, starts[k], End(starts[k]))]))

\* str.replace(tok, rep)
Replace(s, tok, rep) == Join(SplitOn(s, tok), rep)

\* set(text.split())
WordSet(s) == Let(SplitWords(s), LAMBDA w : {w[k] : k \in 1..Len(w)})

\* the indices of the TRUE entries of a sequence of booleans, in order: the
\* positions a filtering loop or comprehension keeps
SelectIdx(keep) == Ascending({k \in 1..Len(keep) : keep[k]})

\* hashlib.md5(x.encode()).hexdigest(): a digest is an opaque token around its
\* preimage, so two digests are equal exactly when their preimages are
\* (MD5 taken as collision-free).
md5_hexdigest(s) == "md5(" \o s \o ")"

\* hexdigest()[:10], likewise taken as collision-free
md5_hexdigest_10(s) == "md5_10(" \o s \o ")"

(***************************************************************************)
(* Query classification and entity extraction                              *)
(***************************************************************************)
suspicious_tokens == <<"assistant:", "user:", "assistant", "user", "sommelier:">>

pairing_terms == <<"pair", "pairing", "goes with", "good with", "match", "matching", "complement">>

food_categories ==
  << "steak", "beef", "pork", "lamb", "veal", "chicken", "turkey", "duck", "goose",
     "meat", "burgers", "barbecue", "bbq", "ribs", "bacon", "ham", "sausage",
     "fish", "salmon", "tuna", "cod", "halibut", "trout", "seafood", "shrimp", "lobster",
     "crab", "oyster", "mussel", "clam", "scallop", "squid", "octopus", "eel",
     "pasta", "pizza", "risotto", "lasagna", "spaghetti", "gnocchi", "ravioli",
     "cheese", "cheddar", "brie", "camembert", "gouda", "blue cheese", "goat cheese",
     "parmesan", "feta", "mozzarella", "ricotta", "dairy",
     "chocolate", "dessert", "cake", "pie", "tart", "cookie", "pudding", "ice cream",
     "vegetable", "salad", "greens", "tomato", "mushroom", "truffle", "potato",
     "eggplant", "zucchini", "cucumber", "carrot", "asparagus", "broccoli",
     "italian", "french", "indian", "chinese", "japanese", "mexican", "thai", "spanish" >>

pronouns == {"that", "this", "these", "those", "it"}

\* the loop that removes each suspicious token present, in list order
RemoveSuspicious(query) ==
  LET RECURSIVE go(_, _)
      go(k, q0) ==
        Let(q0, LAMBDA q :
          IF k > Len(suspicious_tokens) THEN q
          ELSE go(k + 1, IF Contains(q, suspicious_tokens[k])
                         THEN Replace(q, suspicious_tokens[k], "") ELSE q))
  IN  go(1, query)

_is_food_pairing_query(query0) ==
  \E query \in {RemoveSuspicious(Strip(Lower(query0)))} :
    LET is_pairing == ContainsAny(query, pairing_terms)
    IN  IF Contains(query, "that") \/ Contains(query, "this")
        THEN is_pairing /\ ContainsAny(query, <<"food", "dish", "meal", "restaurant", "cuisine">>)
        ELSE is_pairing

\* _extract_food_items from line 1213 on, for the lower-cased, stripped query q1
FoodItemsOf(q1) ==
  IF ContainsAny(q1, <<"first suggestion", "second suggestion", "third suggestion",
                       "that suggestion", "option", "sounds good">>)
  THEN <<>>
  ELSE
  Let(RemoveSuspicious(q1), LAMBDA query :
    Let(SelectIdx([k \in 1..Len(food_categories) |-> Contains(query, food_categories[k])]), LAMBDA listed :
      Let(IF listed = <<>> /\ (Contains(query, "pair") \/ Contains(query, "pairing"))
          THEN Let(SplitOn(query, "with"), LAMBDA parts :
                 IF Len(parts) > 1
                 THEN Let(Join(Prefix(SplitWords(Strip(parts[2])), 3), " "), LAMBDA food_part :
                        IF ~ContainsAny(food_part, suspicious_tokens) THEN <<food_part>> ELSE <<>>)
                 ELSE <<>>)
          ELSE [j \in 1..Len(listed) |-> food_categories[listed[j]]],
          LAMBDA found_foods :
        IF /\ found_foods = <<>>
           /\ (Contains(query, "that") \/ Contains(query, "this"))
           /\ (Contains(query, "pair") \/ Contains(query, "dish") \/ Contains(query, "food"))
        THEN <<>>
        ELSE
        Let([j \in 1..Len(found_foods) |-> RStrip(found_foods[j], {".", ",", "?", "!", ":", ";"})],
            LAMBDA stripped :
          Let(SelectIdx([j \in 1..Len(stripped) |->
                           Strip(stripped[j]) # "" /\ Strip(stripped[j]) \notin pronouns]),
              LAMBDA kept : [j \in 1..Len(kept) |-> stripped[kept[j]]])))))

_extract_food_items(query0) ==
  Let(Lower(query0), LAMBDA lowered :
    IF \/ Contains(lowered, "option")
       \/ Contains(lowered, "sounds good")
       \/ ContainsAny(lowered, <<"that wine", "that option">>)
    THEN <<>>
    ELSE FoodItemsOf(Strip(lowered)))
(***************************************************************************)
(* Key terms, recommendation constraints, essence and stable id            *)
(***************************************************************************)
stopwords ==
  { "what", "which", "how", "is", "are", "the", "a", "an", "in", "with", "for", "to",
    "of", "would", "should", "could", "will", "can", "do", "does", "has", "have", "had",
    "i", "you", "he", "she", "we", "they", "it", "this", "that", "these", "those",
    "am", "was", "were", "be", "been", "being", "there", "their", "me",
    "and", "or", "but", "if", "then", "so", "because", "since", "while", "when", "where",
    "why", "all", "any", "both", "each", "few", "more", "most", "other", "some",
    "such", "no", "nor", "not", "only", "own", "same", "than", "too", "very", "just",
    "now", "also", "really", "quite" }

wine_stopwords ==
  { "wine", "wines", "drink", "bottle", "glass", "recommend", "suggestion",
    "taste", "flavor", "tell", "about", "know", "like", "good" }

important_terms ==
  { "cabernet", "merlot", "chardonnay", "pinot", "sauvignon", "riesling", "shiraz",
    "zinfandel", "syrah", "malbec", "champagne", "prosecco", "bordeaux", "burgundy",
    "vintage", "terroir", "tannin", "acidity", "oak", "body", "dry", "sweet", "pairing",
    "decant", "cellar", "sommelier", "vineyard", "winery", "german", "french", "italian", "spanish" }

\* The weight of the word at position k (1-based) of n words, times 2n: the base
\* weight 1.0, 0.5 or 2.0 plus the position factor k/n, kept exact.
TermWeight2n(word, k, n) ==
  (IF word \in wine_stopwords /\ n > 3 THEN n
   ELSE IF word \in important_terms THEN 4 * n
   ELSE 2 * n) + 2 * k

\* list.sort(key=weight, reverse=True): stable, heaviest first
\* of the entries idx, whose weights are w
SortByWeightDesc(idx0, w0) ==
  Let(<<idx0, w0>>, LAMBDA a :
    [k \in 1..Len(a[1]) |->
       a[1][CHOOSE i \in 1..Len(a[1]) :
              Cardinality({j \in 1..Len(a[1]) :
                             a[2][j] > a[2][i] \/ (a[2][j] = a[2][i] /\ j < i)}) = k - 1]])

_extract_key_terms(query) ==
  Let(SplitWords(query), LAMBDA words :
    Let([k \in 1..Len(words) |-> Lower(words[k])], LAMBDA lw :
      Let(SelectIdx([k \in 1..Len(lw) |-> lw[k] \notin stopwords /\ Len(lw[k]) > 2]), LAMBDA kept :
        Let(Prefix(SortByWeightDesc(kept, [j \in 1..Len(kept) |->
                                            TermWeight2n(lw[kept[j]], kept[j], Len(lw))]), 5),
            LAMBDA top :
          IF top = <<>> THEN query
          ELSE Join([j \in 1..Len(top) |-> lw[top[j]]], " ")))))

wine_types ==
  << <<"red",       <<"red", "cabernet", "merlot", "pinot noir", "syrah", "shiraz", "malbec", "zinfandel">> >>,
     <<"white",     <<"white", "chardonnay", "sauvignon blanc", "pinot grigio", "riesling", "moscato">> >>,
     <<"sparkling", <<"sparkling", "champagne", "prosecco", "cava", "bubbly">> >>,
     <<"rose",      <<"rosé", "rose", "pink wine">> >> >>

regions ==
  << <<"france",      <<"french", "france", "bordeaux", "burgundy", "champagne", "rhone", "loire">> >>,
     <<"italy",       <<"italian", "italy", "tuscany", "piedmont", "veneto", "sicily">> >>,
     <<"spain",       <<"spanish", "spain", "rioja", "catalonia", "ribera">> >>,
     <<"usa",         <<"american", "california", "napa", "sonoma", "oregon", "washington">> >>,
     <<"australia",   <<"australian", "australia", "barossa", "margaret river">> >>,
     <<"new_zealand", <<"new zealand", "marlborough">> >>,
     <<"argentina",   <<"argentinian", "argentina", "mendoza">> >>,
     <<"chile",       <<"chilean", "chile">> >>,
     <<"germany",     <<"german", "germany", "mosel", "rheingau">> >> >>

\* the first key of an ordered dict one of whose terms occurs in the text, or None
FirstKeyWithTerm(table, text) ==
  Let({k \in 1..Len(table) : ContainsAny(text, table[k][2])}, LAMBDA hit :
    IF hit = {} THEN None ELSE table[MinOf(hit)][1])

_extract_wine_type(query) == FirstKeyWithTerm(wine_types, query)

_extract_region(query) == FirstKeyWithTerm(regions, Lower(query))

Digits == {"0", "1", "2", "3", "4", "5", "6", "7", "8", "9"}

\* the length of the longest run of characters of `chars` that starts at i
RunLen(s, chars, i) ==
  Let({j \in i..Len(s) : CharAt(s, j) \notin chars}, LAMBDA stop :
    (IF stop = {} THEN Len(s) + 1 ELSE MinOf(stop)) - i)

\* re.search(word + r'\s+\$(\d+)', s): the digits of the leftmost match, or None
WordDollarDigits(s, word) ==
  LET Dollar(i) == i + Len(word) + RunLen(s, Whitespace, i + Len(word))
      ok == {i \in 1..Len(s) :
               /\ MatchAt(s, word, i)
               /\ RunLen(s, Whitespace, i + Len(word)) >= 1
               /\ MatchAt(s, "$", Dollar(i))
               /\ RunLen(s, Digits, Dollar(i) + 1) >= 1}
  IN  Let(ok, LAMBDA at :
        IF at = {} THEN None
        ELSE Let(Dollar(MinOf(at)) + 1, LAMBDA d : SubSeq(s, d, d + RunLen(s, Digits, d) - 1)))

\* re.search(r'\$(\d+)-\$?(\d+)', s): <<group 1, group 2>> of the leftmost match, or <<>>
DollarRange(s) ==
  LET Dash(i) == i + 1 + RunLen(s, Digits, i + 1)
      Second(i) == IF MatchAt(s, "$", Dash(i) + 1) /\ RunLen(s, Digits, Dash(i) + 2) >= 1
                   THEN Dash(i) + 2 ELSE Dash(i) + 1
      ok == {i \in 1..Len(s) :
               /\ MatchAt(s, "$", i)
               /\ RunLen(s, Digits, i + 1) >= 1
               /\ MatchAt(s, "-", Dash(i))
               /\ RunLen(s, Digits, Second(i)) >= 1}
  IN  Let(ok, LAMBDA at :
        IF at = {} THEN <<>>
        ELSE Let(MinOf(at), LAMBDA i :
               << SubSeq(s, i + 1, Dash(i) - 1),
                  SubSeq(s, Second(i), Second(i) + RunLen(s, Digits, Second(i)) - 1) >>))

\* re.search(r'\$(\d+)', s)
DollarDigits(s) ==
  LET ok == {i \in 1..Len(s) : MatchAt(s, "$", i) /\ RunLen(s, Digits, i + 1) >= 1}
  IN  Let(ok, LAMBDA at :
        IF at = {} THEN None
        ELSE Let(MinOf(at), LAMBDA i : SubSeq(s, i + 1, i + RunLen(s, Digits, i + 1))))

\* re.search(r'(\d+)\s+dollars', s)
DigitsDollars(s) ==
  LET Sp(i) == i + RunLen(s, Digits, i)
      ok == {i \in 1..Len(s) :
               /\ RunLen(s, Digits, i) >= 1
               /\ RunLen(s, Whitespace, Sp(i)) >= 1
               /\ MatchAt(s, "dollars", Sp(i) + RunLen(s, Whitespace, Sp(i)))}
  IN  Let(ok, LAMBDA at :
        IF at = {} THEN None ELSE Let(MinOf(at), LAMBDA i : SubSeq(s, i, Sp(i) - 1)))

\* the first pattern of the chain at lines 1324-1341 that matches
PriceOf(query) ==
  Let(<<WordDollarDigits(query, "under"), WordDollarDigits(query, "less than"),
        WordDollarDigits(query, "around")>>, LAMBDA word :
    IF word[1] # None THEN "price_" \o word[1]
    ELSE IF word[2] # None THEN "price_" \o word[2]
    ELSE IF word[3] # None THEN "price_" \o word[3]
    ELSE
    Let(DollarRange(query), LAMBDA range :
      IF range # <<>> THEN "price_" \o range[1] \o "_to_" \o range[2]
      ELSE
      Let(<<DollarDigits(query), DigitsDollars(query)>>, LAMBDA single :
        IF single[1] # None THEN "price_" \o single[1]
        ELSE IF single[2] # None THEN "price_" \o single[2]
        ELSE IF Contains(query, "cheap") \/ Contains(query, "inexpensive") \/ Contains(query, "budget")
             THEN "price_budget"
        ELSE IF Contains(query, "expensive") \/ Contains(query, "premium") \/ Contains(query, "luxury")
             THEN "price_premium"
        ELSE None)))

_extract_price_range(query0) == Let(query0, LAMBDA query : PriceOf(query))

exact_stopwords == {"a", "an", "the", "is", "are", "that", "this", "with", "for", "to", "in", "of", "and", "or"}

\* the exact-match component: the words outside exact_stopwords, hashed to a short
\* token when longer than 30 characters
ExactQuery(normalized) ==
  Let(SplitWords(normalized), LAMBDA exact_words :
    Let(SelectIdx([k \in 1..Len(exact_words) |-> exact_words[k] \notin exact_stopwords]), LAMBDA kept :
      Let(Join([j \in 1..Len(kept) |-> exact_words[kept[j]]], " "), LAMBDA exact_query :
        IF Len(exact_query) > 30 THEN "q_" \o md5_hexdigest_10(exact_query)
        ELSE exact_query)))

\* _get_query_essence from line 1093 on, for the lower-cased, stripped query
EssenceOfNormalized(normalized) ==
  Let(<<ExactQuery(normalized), _extract_food_items(normalized)>>, LAMBDA a :
    IF _is_food_pairing_query(normalized) /\ a[2] # <<>>
    THEN "exact_" \o a[1] \o "_pair_with_" \o Join(a[2], " ")
    ELSE
    Let(<<_extract_wine_type(normalized), _extract_price_range(normalized),
          _extract_region(normalized)>>, LAMBDA found :
      Let(SelectIdx([k \in 1..3 |-> found[k] # None]), LAMBDA present :
        IF ContainsAny(normalized, <<"recommend", "suggest", "looking for", "what wine">>)
           /\ present # <<>>
        THEN "exact_" \o a[1] \o "_recommend_" \o Join([j \in 1..Len(present) |-> found[present[j]]], " ")
        ELSE "exact_" \o a[1] \o "_" \o _extract_key_terms(normalized))))

\* a faulty variant of the essence: a food-pairing essence made of the food terms
\* alone, without the exact-match component
EssenceWithoutExact(query) ==
  Let(Strip(Lower(query)), LAMBDA normalized :
    Let(_extract_food_items(normalized), LAMBDA food_items :
      IF _is_food_pairing_query(normalized) /\ food_items # <<>>
      THEN "pair_with_" \o Join(food_items, " ")
      ELSE EssenceOfNormalized(normalized)))

_get_query_essence(query) ==
  Let(Strip(Lower(query)), LAMBDA normalized : EssenceOfNormalized(normalized))
(***************************************************************************)
(* Similarity, prompt and data-source selection, conversation context      *)
(***************************************************************************)
\* a faulty variant of the similarity: the union is counted as the two sets side
\* by side, the common words twice
similarity_by_sum(text1, text2) ==
  Let(<<WordSet(Lower(text1)), WordSet(Lower(text2))>>, LAMBDA words :
    IF words[1] = {} \/ words[2] = {} THEN <<0, 1>>
    ELSE <<Cardinality(words[1] \cap words[2]), Cardinality(words[1]) + Cardinality(words[2])>>)

\* a faulty variant of the similarity: the common words are counted against the
\* words of the first text
similarity_to_first(text1, text2) ==
  Let(<<WordSet(Lower(text1)), WordSet(Lower(text2))>>, LAMBDA words :
    IF words[1] = {} \/ words[2] = {} THEN <<0, 1>>
    ELSE <<Cardinality(words[1] \cap words[2]), Cardinality(words[1])>>)

\* Jaccard similarity of the word sets, as the pair <<|intersection|, |union|>>;
\* <<0, 1>> stands for the 0.0 returned when either set is empty.
_calculate_text_similarity(text1, text2) ==
  Let(<<WordSet(Lower(text1)), WordSet(Lower(text2))>>, LAMBDA words :
    IF words[1] = {} \/ words[2] = {} THEN <<0, 1>>
    ELSE <<Cardinality(words[1] \cap words[2]), Cardinality(words[1] \cup words[2])>>)

\* a faulty variant of the comparison: a hit as similar as the running best replaces it
FracGE(a, b) == a[1] * b[2] >= b[1] * a[2]

\* similarity > best_score, both exact fractions <<numerator, denominator>>
FracGT(a, b) == a[1] * b[2] > b[1] * a[2]

\* best_score = 0.7
SimilarityThreshold == <<7, 10>>

\* the text after the last "user:" of a lower-cased, stripped text (the whole text
\* when it holds none)
UserPart(text) ==
  Let(Strip(Lower(text)), LAMBDA normalized :
    IF Contains(normalized, "user:")
    THEN Let(SplitOn(normalized, "user:"), LAMBDA parts : Strip(parts[Len(parts)]))
    ELSE normalized)

\* a faulty variant of the loop: the first hit above the threshold is kept
FirstAboveThreshold(similarities0) ==
  Let(similarities0, LAMBDA similarities :
    Let({k \in 1..Len(similarities) : FracGT(similarities[k], SimilarityThreshold)}, LAMBDA above :
      IF above = {} THEN <<0, SimilarityThreshold>>
      ELSE <<MinOf(above), similarities[MinOf(above)]>>))

\* The loop over the hits of the text search (lines 1136-1162): the running best
\* match, replaced only by a hit whose similarity is strictly above the running
\* best score, which starts at the threshold.  similarities[k] is the similarity of
\* the k-th hit's user part with the query's.  Returns <<index of best_match or 0,
\* best_score>>.
BestMatch(similarities0) ==
  Let(similarities0, LAMBDA similarities :
    LET RECURSIVE go(_, _, _)
        go(k, best_match, best_score) ==
          IF k > Len(similarities) THEN <<best_match, best_score>>
          ELSE IF FracGT(similarities[k], best_score) THEN go(k + 1, k, similarities[k])
               ELSE go(k + 1, best_match, best_score)
    IN  go(1, 0, SimilarityThreshold))

\* a faulty variant of the choice: the first hit as the search returned them
FirstHit(hits) == hits[1]

\* sorted(hits, key=createdAt, reverse=True)[0]: the first of the newest hits
NewestHit(hits) ==
  Let(MaxOf({hits[k].createdAt : k \in 1..Len(hits)}), LAMBDA newest :
    hits[MinOf({k \in 1..Len(hits) : hits[k].createdAt = newest})])

\* self.prompts and self.data_sources after _setup: every configured key has an id
PromptTypes == {"sommelier", "recommendations", "food_pairing", "education", "vineyard_info", "tasting"}

prompts == [k \in PromptTypes |-> "prompt_" \o k]

DataSourceKeys == {"all_wines", "red_wines", "white_wines", "sparkling_wines", "rose_wines", "premium_wines"}

data_sources == [k \in DataSourceKeys |-> "ds_" \o k]

_select_data_source(query) ==
  Let(Lower(query), LAMBDA query_lower :
    IF Contains(query_lower, "red") THEN data_sources["red_wines"]
    ELSE IF Contains(query_lower, "white") THEN data_sources["white_wines"]
    ELSE IF ContainsAny(query_lower, <<"sparkling", "champagne", "prosecco", "bubbly">>)
         THEN data_sources["sparkling_wines"]
    ELSE IF ContainsAny(query_lower, <<"rosé", "rose">>) THEN data_sources["rose_wines"]
    ELSE IF ContainsAny(query_lower, <<"premium", "expensive", "high quality", "best">>)
         THEN data_sources["premium_wines"]
    ELSE data_sources["all_wines"])

\* the content of the most recent assistant message, lower-cased ("" when none)
LastAssistant(history) ==
  Let({k \in 1..Len(history) : history[k].role = "assistant"}, LAMBDA at :
    IF at = {} THEN "" ELSE Lower(history[MaxOf(at)].content))

HasAssistant(history) == \E k \in 1..Len(history) : history[k].role = "assistant"

\* _infer_prompt_type_from_query for the lower-cased query and the lower-cased last
\* assistant message
InferFrom(query_lower, last, history) ==
  IF history = <<>> THEN None
  ELSE IF ContainsAny(query_lower, <<"pair", "go with", "serve with", "dish", "meal", "food">>)
       THEN "food_pairing"
  ELSE IF ContainsAny(query_lower, <<"recommend", "suggest", "alternative", "similar", "prefer">>)
       THEN "recommendations"
  ELSE IF ContainsAny(query_lower, <<"taste", "flavor", "aroma", "smell", "drink", "palate">>)
       THEN "tasting"
  ELSE IF Len(history) >= 2 /\ last # ""
       THEN IF ContainsAny(last, <<"recommend", "suggest", "try this", "excellent choice">>)
            THEN "recommendations"
            ELSE IF ContainsAny(last, <<"pair", "complement", "go well with", "match">>)
            THEN "food_pairing"
            ELSE IF ContainsAny(last, <<"taste", "flavor", "palate", "aroma", "bouquet">>)
            THEN "tasting"
            ELSE None
  ELSE None

_infer_prompt_type_from_query(query, history) ==
  Let(<<Lower(query), LastAssistant(history)>>, LAMBDA lowered :
    InferFrom(lowered[1], lowered[2], history))

\* _select_prompt, lines 188-229: the branches taken before the semantic matcher
\* is consulted, as <<the prompt id, the new last_used_prompt_type>>, or <<>> when
\* none of them returns.  `last_used` is "" while the attribute holds no prompt type.
SelectBeforeMatcher(query, prompt_type, history, last_used) ==
  IF Truthy(prompt_type) /\ prompt_type \in DOMAIN prompts
  THEN <<prompts[prompt_type], prompt_type>>
  ELSE
  Let(ContainsAny(Lower(query), <<"option", "sounds good", "that wine", "that one",
                                  "this one", "i'll try", "i'll go with", "tell me more about">>),
      LAMBDA is_follow_up :
    IF is_follow_up /\ history # <<>> /\ last_used \in DOMAIN prompts
    THEN <<prompts[last_used], last_used>>
    ELSE IF is_follow_up /\ Len(history) >= 2 /\ HasAssistant(history)
    THEN Let(LastAssistant(history), LAMBDA last :
           IF ContainsAny(last, <<"recommend", "suggestion", "option">>)
           THEN <<prompts["recommendations"], "recommendations">>
           ELSE IF ContainsAny(last, <<"pair", "pairing", "food", "dish", "meal">>)
           THEN <<prompts["food_pairing"], "food_pairing">>
           ELSE <<>>)
    ELSE <<>>)

\* next((k for k, v in self.prompts.items() if v == prompt_id), None)
PromptKeyOf(prompt_id) ==
  IF \E k \in DOMAIN prompts : prompts[k] = prompt_id
  THEN CHOOSE k \in DOMAIN prompts : prompts[k] = prompt_id
  ELSE None

\* _select_prompt: <<the prompt id, the new last_used_prompt_type>>.  `matched` is
\* what semantic_matcher.match_prompt returned, "" when the matcher is not consulted.
_select_prompt(query, prompt_type, history, last_used, matched) ==
  Let(SelectBeforeMatcher(query, prompt_type, history, last_used), LAMBDA before :
    IF before # <<>> THEN before
    ELSE IF matched \in DOMAIN prompts
    THEN <<prompts[matched], PromptKeyOf(matched)>>
    ELSE
    Let(Lower(query), LAMBDA query_lower :
      IF ContainsAny(query_lower, <<"recommend", "suggestion", "what wine should", "looking for a", "good wine">>)
      THEN <<prompts["recommendations"], "recommendations">>
      ELSE IF ContainsAny(query_lower, <<"pair with", "pairing", "goes with", "match with", "food">>)
      THEN <<prompts["food_pairing"], "food_pairing">>
      ELSE <<prompts["sommelier"], "sommelier">>))

ContextStart == "You are a knowledgeable sommelier AI assistant. This is the start of a new conversation."

ContextContinue == "You are a knowledgeable sommelier AI assistant. Continue the conversation naturally."

ContextSimple == "You are a knowledgeable sommelier AI assistant. Continue the conversation naturally based on previous messages about wine."

\* the characters of the model that UTF-8 encodes in two and in three bytes; every
\* other character of the model is ASCII, of one byte
TwoByteChars == {"é"}

ThreeByteChars == {"€"}

\* len(text.encode('utf-8'))
Utf8Len(text) ==
  Let(text, LAMBDA s :
    Len(s) + Cardinality({i \in 1..Len(s) : CharAt(s, i) \in TwoByteChars})
           + 2 * Cardinality({i \in 1..Len(s) : CharAt(s, i) \in ThreeByteChars}))

\* one line of the context: the role, capitalised, and the content cut at 100
ContextLine(msg) ==
  "\n" \o Capitalize(msg.role) \o ": "
    \o (IF Len(msg.content) > 100 THEN Prefix(msg.content, 97) \o "..." ELSE msg.content)

_build_conversation_context(history) ==
  IF history = <<>> THEN ContextStart
  ELSE
  Let(Suffix(history, 2), LAMBDA recent :
    Let(ContextContinue
          \o (IF Len(recent) >= 1 THEN ContextLine(recent[1]) ELSE "")
          \o (IF Len(recent) >= 2 THEN ContextLine(recent[2]) ELSE ""), LAMBDA context :
      IF Utf8Len(context) > 450 THEN ContextSimple ELSE context))

\* the query and the full query of process_query (lines 1383-1394)
TruncatedQuery(query) == IF Len(query) > 450 THEN Prefix(query, 450) \o "..." ELSE query

FullQuery(context, query) ==
  Let(context \o "\n\nUser: " \o query, LAMBDA full_query :
    IF Utf8Len(full_query) > 512 THEN "User: " \o query ELSE full_query)

(***************************************************************************)
(* Session metrics.  Response times are whole hundredths of a second, rates *)
(* whole hundredths of a percent and costs whole ten-thousandths, so that   *)
(* round(x, 2) and round(x, 4) are exact.  The values of the timestamps are *)
(* not modelled, only whether a session carries an end_time.                *)
(***************************************************************************)
\* self.estimated_tokens_per_response
estimated_tokens_per_response == 1000

\* self.estimated_cost_per_1k_tokens = 0.002, in ten-thousandths
estimated_cost_per_1k_tokens == 20

\* round(n / d), halves to the even neighbour
RoundDiv(n, d) ==
  LET q == n \div d
      r == n % d
  IN  IF 2 * r > d \/ (2 * r = d /\ q % 2 = 1) THEN q + 1 ELSE q

SumSeq(s) ==
  LET RECURSIVE go(_)
      go(k) == IF k = 0 THEN 0 ELSE s[k] + go(k - 1)
  IN  go(Len(s))

NoDerived == [computed |-> FALSE]

\* the dict that __init__ and reset_metrics assign to self.current_session
NewSession ==
  [ total_queries    |-> 0,
    cache_hits       |-> 0,
    cache_misses     |-> 0,
    api_errors       |-> 0,
    response_times   |-> <<>>,
    cache_hit_times  |-> <<>>,
    generation_times |-> <<>>,
    query_types      |-> [k \in {} |-> 0],
    query_log        |-> <<>>,
    errors           |-> <<>>,
    algolia_operations |-> [search_operations |-> 0, get_operations |-> 0, total_operations |-> 0],
    has_end_time     |-> FALSE,
    derived          |-> NoDerived ]

_track_algolia_operation(session, operation_type) ==
  [session EXCEPT !.algolia_operations[operation_type] = @ + 1,
                  !.algolia_operations.total_operations = @ + 1]

QueryTypeEntry(types, query_type) ==
  IF query_type \in DOMAIN types THEN types[query_type] ELSE [total |-> 0, hits |-> 0, misses |-> 0]

\* a faulty variant of log_query: an outcome that is not a hit is counted in the
\* total only
log_query_hits_only(session, query, is_cache_hit, response_time, query_type, object_id) ==
  [session EXCEPT
     !.total_queries  = @ + 1,
     !.cache_hits     = IF is_cache_hit THEN @ + 1 ELSE @,
     !.response_times = Append(@, response_time)]

log_query(session, query, is_cache_hit, response_time, query_type, object_id) ==
  LET old == QueryTypeEntry(session.query_types, query_type)
      new == [total  |-> old.total + 1,
              hits   |-> old.hits + (IF is_cache_hit THEN 1 ELSE 0),
              misses |-> old.misses + (IF is_cache_hit THEN 0 ELSE 1)]
      query_entry == [query         |-> IF Len(query) > 100 THEN Prefix(query, 100) \o "..." ELSE query,
                      cache_hit     |-> is_cache_hit,
                      response_time |-> response_time,
                      query_type    |-> query_type,
                      object_id     |-> object_id]
  IN  [session EXCEPT
         !.total_queries    = @ + 1,
         !.cache_hits       = IF is_cache_hit THEN @ + 1 ELSE @,
         !.cache_hit_times  = IF is_cache_hit THEN Append(@, response_time) ELSE @,
         !.cache_misses     = IF is_cache_hit THEN @ ELSE @ + 1,
         !.generation_times = IF is_cache_hit THEN @ ELSE Append(@, response_time),
         !.response_times   = Append(@, response_time),
         !.query_types      = IF Truthy(query_type)
                              THEN [k \in DOMAIN @ \cup {query_type} |-> IF k = query_type THEN new ELSE @[k]]
                              ELSE @,
         !.query_log        = Append(@, query_entry)]

\* a faulty variant of log_error: the error is counted as a query that missed
log_error_as_miss(session, error_type, details) ==
  [session EXCEPT
     !.api_errors   = @ + 1,
     !.errors       = Append(@, [type |-> error_type, details |-> Prefix(details, 200)]),
     !.total_queries = @ + 1,
     !.cache_misses = @ + 1]

log_error(session, error_type, details) ==
  [session EXCEPT
     !.api_errors = @ + 1,
     !.errors     = Append(@, [type |-> error_type, details |-> Prefix(details, 200)])]

calculate_derived_metrics(session) ==
  LET total  == session.total_queries
      hits   == session.cache_hits
      misses == session.cache_misses
      Avg(times) == IF times # <<>> THEN RoundDiv(SumSeq(times), Len(times)) ELSE 0
      tokens_saved   == hits * estimated_tokens_per_response
      cost_saved     == (tokens_saved * estimated_cost_per_1k_tokens) \div 1000
      potential_cost == (total * estimated_tokens_per_response * estimated_cost_per_1k_tokens) \div 1000
      actual_cost    == (misses * estimated_tokens_per_response * estimated_cost_per_1k_tokens) \div 1000
  IN  [session EXCEPT !.derived =
        [ computed            |-> TRUE,
          cache_hit_rate      |-> IF total > 0 THEN RoundDiv(hits * 10000, total) ELSE 0,
          cache_miss_rate     |-> IF total > 0 THEN RoundDiv(misses * 10000, total) ELSE 0,
          avg_response_time   |-> Avg(session.response_times),
          avg_cache_hit_time  |-> Avg(session.cache_hit_times),
          avg_generation_time |-> Avg(session.generation_times),
          estimated_tokens_saved         |-> tokens_saved,
          estimated_cost_saved           |-> cost_saved,
          potential_cost_without_caching |-> potential_cost,
          actual_cost_with_caching       |-> actual_cost,
          cost_reduction_percentage      |-> IF potential_cost > 0
                                             THEN RoundDiv(cost_saved * 10000, potential_cost) ELSE 0 ]]

\* save_metrics, lines 116-120: the session with its end time and derived metrics
ClosedSession(session) == [calculate_derived_metrics(session) EXCEPT !.has_end_time = TRUE]

\* a faulty variant of the write: the earlier sessions without the current one
SessionsOnly(sessions, session) == sessions

\* save_metrics, lines 123-130: the "sessions" list written to the metrics file
SavedSessions(sessions, session) == sessions \o <<session>>

(***************************************************************************)
(* Bounds and input domains                                                *)
(***************************************************************************)
\* requests accepted in one run of Spec
MaxRequests == 2

\* the callers of process_query: the command-line client, which makes one call at
\* a time
Threads == {1}

\* the query texts submitted
Queries == {"What wine pairs with steak?", "what pairs well with a good steak", "tell me about merlot"}

\* the query texts with nothing in them: the empty text and a blank one
EmptyQueries == {"", " "}

\* the prompt_type argument of process_query
PromptTypeArgs == {None}

\* the conversation_id argument of process_query
ConversationArgs == {None, "convA"}

\* answer texts of the generation service
Answers == {"Try a Malbec."}

\* time.time() - start_time, in hundredths of a second
ResponseTimes == {3}

\* max_retries = 3, retry_delay = 2 (generate_response)
max_retries == 3

initial_retry_delay == 2

\* 'hitsPerPage' of the two text searches
SearchHitsPerPage == 10

FoodHitsPerPage == 5

\* str(e) of the exceptions that reach the handler of process_query
ErrorMessages == {"Rate limit exceeded", "boom"}

\* what semantic_matcher.match_prompt returns: a prompt type, or a prompt id
MatcherResults == {"food_pairing", "prompt_sommelier"}

\* the attempt numbers of the error details
AttemptText == <<"1", "2", "3", "4">>

\* f"conv-{str(uuid.uuid4())[:8]}" of the n-th generated conversation id
UuidPrefixes == <<"0000000a", "0000000b", "0000000c", "0000000d", "0000000e", "0000000f">>

VARIABLES
  conversation_id,        \* self.conversation_id
  conversation_history,   \* self.conversation_history
  last_used_prompt_type,  \* self.last_used_prompt_type ("" while not set)
  semantic_matcher,       \* whether self.semantic_matcher is available
  current_session,        \* self.current_session
  all_sessions,           \* self.all_sessions
  metrics_file,           \* the "sessions" list of the metrics file
  responses,              \* the records of the index algolia_rag_responses
  clock,                  \* datetime.now() of the latest createdAt
  uuids,                  \* conversation ids generated so far
  req,                    \* the request each thread is processing
  served,                 \* requests accepted so far
  history_owner,          \* history: the conversation in which each entry of conversation_history was exchanged
  keys_derived,           \* history: the calls of _generate_stable_id
  gen_calls,              \* history: the requests sent to the generation service
  replies,                \* history: the responses returned to the callers
  flushed,                \* history: the session records written by reset_metrics
  recorder,               \* the position of each front-end thread inside log_query
  pure                    \* the function applied in the specifications of the pure functions

conv_vars    == <<conversation_id, conversation_history, history_owner, uuids>>

metrics_vars == <<current_session, all_sessions, metrics_file, flushed>>

store_vars   == <<responses, clock>>

request_vars == <<req, served, keys_derived, gen_calls, replies>>

vars == <<conversation_id, conversation_history, last_used_prompt_type, semantic_matcher,
          current_session, all_sessions, metrics_file, responses, clock, uuids, req, served,
          history_owner, keys_derived, gen_calls, replies, flushed, recorder, pure>>

IdleRequest == [pc |-> "idle"]

\* the threads of the HTTP front end (app.py), which share the one assistant
FrontEndThreads == {1, 2}

IdleRecorder == [pc |-> "idle"]

NoPure == [op |-> "none"]

\* The state after SommelierAssistant.__init__ with no metrics file on disk.
Constructed ==
  /\ conversation_id = None
  /\ conversation_history = <<>>
  /\ last_used_prompt_type = ""
  /\ semantic_matcher \in BOOLEAN
  /\ current_session = NewSession
  /\ all_sessions = <<>>
  /\ metrics_file = <<>>
  /\ responses = {}
  /\ clock = 0
  /\ uuids = 0
  /\ req = [t \in Threads |-> IdleRequest]
  /\ served = 0
  /\ history_owner = <<>>
  /\ keys_derived = <<>>
  /\ gen_calls = {}
  /\ replies = {}
  /\ flushed = {}
  /\ recorder = [t \in FrontEndThreads |-> IdleRecorder]

Init == Constructed /\ pure = NoPure

\* a faulty variant of the key: the digest also covers whether the conversation
\* has a history at the time of the call
SaltedStableId(query_essence, data_source_id, prompt_id, self_conversation_id) ==
  "sommelier_" \o md5_hexdigest(query_essence \o "|" \o data_source_id \o "|" \o prompt_id
                                 \o (IF Truthy(self_conversation_id) THEN "|conv_" \o self_conversation_id ELSE "")
                                 \o (IF conversation_history = <<>> THEN "" ELSE "|follow_up"))

\* a faulty variant of the key: the conversation id is left out of the digest
StableIdWithoutConversation(query_essence, data_source_id, prompt_id, self_conversation_id) ==
  "sommelier_" \o md5_hexdigest(query_essence \o "|" \o data_source_id \o "|" \o prompt_id)

\* _generate_stable_id, lines 1741-1745: the composite string that is hashed
components(query_essence, data_source_id, prompt_id, self_conversation_id) ==
  LET conv_component == IF Truthy(self_conversation_id) THEN "|conv_" \o self_conversation_id ELSE ""
  IN  query_essence \o "|" \o data_source_id \o "|" \o prompt_id \o conv_component

\* _generate_stable_id; self_conversation_id is the assistant's self.conversation_id
\* at the call
_generate_stable_id(query_essence, data_source_id, prompt_id, self_conversation_id) ==
  "sommelier_" \o md5_hexdigest(components(query_essence, data_source_id, prompt_id, self_conversation_id))
(***************************************************************************)
(* Tables of the pure functions over the texts of the model (each entry is *)
(* the function applied to the text, computed once)                        *)
(***************************************************************************)
DegradedHttp == "I encountered an error while processing your request. Please try again."

DegradedRetries == "I apologize, but I couldn't generate a response after multiple attempts. Please try again later."

DegradedFilters == "I'm having trouble understanding the context of your follow-up question. Could you please provide more details about what you're asking about specifically?"

DegradedRateLimit == "I'm currently experiencing high demand. Please try again in a moment."

DegradedTimeout == "It's taking longer than expected to process your request. Could you try asking in a simpler way?"

DegradedGeneric == "I encountered an issue while processing your question. Could you try rephrasing or asking a new question?"

\* every text an assistant turn of the history can hold
AssistantTexts == Answers \cup {DegradedHttp, DegradedRetries}

\* every history that decides a context: empty, or ending in one exchange
RecentExchanges ==
  {<<>>} \cup {<<[role |-> "user", content |-> TruncatedQuery(q)], [role |-> "assistant", content |-> a]>> :
                 q \in Queries \cup EmptyQueries, a \in AssistantTexts}

FullQueries == {FullQuery(_build_conversation_context(h), TruncatedQuery(q)) : h \in RecentExchanges, q \in Queries \cup EmptyQueries}

EssenceOf == [q \in Queries \cup EmptyQueries |-> _get_query_essence(TruncatedQuery(q))]

DataSourceOf == [q \in Queries \cup EmptyQueries |-> _select_data_source(q)]

\* find_previous_response, lines 1091-1097
UserQueryOnlyOf == [q \in Queries \cup EmptyQueries |-> UserPart(TruncatedQuery(q))]

IsFoodPairingOf == [q \in Queries \cup EmptyQueries |-> _is_food_pairing_query(Strip(Lower(TruncatedQuery(q))))]

FoodKeywordsOf == [q \in Queries \cup EmptyQueries |-> _extract_food_items(Strip(Lower(TruncatedQuery(q))))]

\* the similarity of a query's user part with the user part of a stored query
SimilarityOf == [q \in Queries \cup EmptyQueries |-> [fq \in FullQueries |->
                   _calculate_text_similarity(UserQueryOnlyOf[q], UserPart(fq))]]


(***************************************************************************)
(* process_query.  A request is one call of it; its steps are its calls to *)
(* the response index and to the generation service.                       *)
(***************************************************************************)
\* one call of _generate_stable_id, made while self.conversation_id is conv
KeyCall(rid, query_essence, data_source_id, prompt_id, conv) ==
  [ rid             |-> rid,
    essence         |-> query_essence,
    data_source_id  |-> data_source_id,
    prompt_id       |-> prompt_id,
    conversation_id |-> conv,
    key             |-> _generate_stable_id(query_essence, data_source_id, prompt_id, conv) ]

\* the conversations in which the messages that a context quotes were exchanged
ContextOwners == {history_owner[k] : k \in {j \in 1..Len(history_owner) : j >= Len(history_owner) - 1}}

\* what a request returned, with the failures it met (of the generation service
\* and of the response index) and what it had logged by then
Reply(r, path, response_text, conv, hit, is_cache_hit) ==
  [ rid            |-> r.rid,
    cid_arg        |-> r.cid_arg,
    raw_query      |-> r.raw_query,
    prompt_type_arg |-> r.prompt_type_arg,
    path           |-> path,
    response       |-> response_text,
    conversationID |-> conv,
    hit            |-> hit,
    lookup_conv    |-> r.lookup_conv,
    failures       |-> r.failures,
    store_failures |-> r.store_failures,
    written        |-> r.written,
    written_at     |-> r.written_at,
    retry_delay    |-> r.retry_delay,
    errors_logged  |-> Len(r.errors),
    logged_as_hit  |-> is_cache_hit ]

NoHit == [objectID |-> None]

\* the hits a search of the response index may return: up to n of the records
\* of the data source, in any order
RECURSIVE HitLists(_, _)
HitLists(S, n) ==
  IF n = 0 \/ S = {} THEN {<<>>}
  ELSE {<<>>} \cup UNION {{<<x>> \o rest : rest \in HitLists(S \ {x}, n - 1)} : x \in S}

\* process_query, lines 1361-1400 with the call of match_prompt returning `matched`
Receive(t, q, ptype, cid, matched) ==
  LET conv  == IF Truthy(cid) THEN cid ELSE conversation_id
      ptype1 == IF Truthy(conv) /\ ~Truthy(ptype)
                THEN _infer_prompt_type_from_query(q, conversation_history) ELSE ptype
      consults == semantic_matcher
                  /\ SelectBeforeMatcher(q, ptype1, conversation_history, last_used_prompt_type) = <<>>
      sel   == _select_prompt(q, ptype1, conversation_history, last_used_prompt_type, matched)
      ds    == DataSourceOf[q]
      call  == KeyCall(served + 1, EssenceOf[q], ds, sel[1], conv)
  IN  /\ req[t].pc = "idle"
      /\ served < MaxRequests
      /\ IF consults THEN matched \in MatcherResults ELSE matched = ""
      /\ served' = served + 1
      /\ conversation_id' = conv
      /\ last_used_prompt_type' = sel[2]
      /\ keys_derived' = Append(keys_derived, call)
      /\ req' = [req EXCEPT ![t] =
                   [ pc             |-> "lookup",
                     rid            |-> served + 1,
                     cid_arg        |-> cid,
                     raw_query      |-> q,
                     prompt_type_arg |-> ptype,
                     query          |-> TruncatedQuery(q),
                     prompt_type    |-> ptype1,
                     prompt_id      |-> sel[1],
                     data_source_id |-> ds,
                     full_query     |-> FullQuery(_build_conversation_context(conversation_history), TruncatedQuery(q)),
                     context_owners |-> ContextOwners,
                     object_id      |-> call.key,
                     key_conversation |-> conv,
                     lookup_conv    |-> conv,
                     sent_conv      |-> None,
                     attempt        |-> 0,
                     retry_delay    |-> initial_retry_delay,
                     failures       |-> <<>>,
                     store_failures |-> <<>>,
                     written        |-> FALSE,
                     written_at     |-> 0,
                     errors         |-> <<>>,
                     response       |-> "",
                     response_conv  |-> None ]]
      /\ UNCHANGED <<conversation_history, history_owner, uuids, semantic_matcher,
                     metrics_vars, store_vars, gen_calls, replies, recorder, pure>>

DegradedFor(error_message) ==
  IF Contains(error_message, "filters:") THEN DegradedFilters
  ELSE IF Contains(Lower(error_message), "rate limit") THEN DegradedRateLimit
  ELSE IF Contains(Lower(error_message), "timeout") THEN DegradedTimeout
  ELSE DegradedGeneric

\* a faulty variant of ReceiveRaises: the exception of match_prompt leaves
\* process_query uncaught, and the caller gets no response
RaisesToCaller(t, q, ptype, cid, error_message, response_time) ==
  /\ req[t].pc = "idle"
  /\ served < MaxRequests
  /\ semantic_matcher
  /\ served' = served + 1
  /\ conversation_id' = IF Truthy(cid) THEN cid ELSE conversation_id
  /\ UNCHANGED <<conversation_history, history_owner, last_used_prompt_type, uuids,
                 semantic_matcher, metrics_vars, store_vars, req, keys_derived, gen_calls,
                 replies, recorder, pure>>

\* process_query, lines 1361-1375 with match_prompt raising, then the handler of
\* lines 1503-1536
ReceiveRaises(t, q, ptype, cid, error_message, response_time) ==
  LET conv  == IF Truthy(cid) THEN cid ELSE conversation_id
      ptype1 == IF Truthy(conv) /\ ~Truthy(ptype)
                THEN _infer_prompt_type_from_query(q, conversation_history) ELSE ptype
      r     == [rid |-> served + 1, cid_arg |-> cid, raw_query |-> q, prompt_type_arg |-> ptype,
                lookup_conv |-> conv, failures |-> <<>>, written |-> FALSE, written_at |-> 0,
                store_failures |-> <<>>, retry_delay |-> initial_retry_delay, errors |-> <<"Query Processing Error">>]
  IN  /\ req[t].pc = "idle"
      /\ served < MaxRequests
      /\ semantic_matcher
      /\ SelectBeforeMatcher(q, ptype1, conversation_history, last_used_prompt_type) = <<>>
      /\ served' = served + 1
      /\ conversation_id' = conv
      /\ current_session' =
           log_query(log_error(current_session, "Query Processing Error", error_message),
                     q, FALSE, response_time, IF Truthy(ptype1) THEN ptype1 ELSE "auto", None)
      /\ replies' = replies \cup {Reply(r, "exception", DegradedFor(error_message), conv, NoHit, FALSE)}
      /\ UNCHANGED <<conversation_history, history_owner, last_used_prompt_type, uuids,
                     semantic_matcher, all_sessions, metrics_file, flushed, store_vars,
                     req, keys_derived, gen_calls, recorder, pure>>

\* a faulty variant of the hit path: the stored answer is returned after a
\* generation call has been made for the request all the same
AnswerCachedAfterGenerating(t, path, hit, session, response_time) ==
  LET r    == [req[t] EXCEPT !.lookup_conv = conversation_id]
      conv == IF ~Truthy(conversation_id) THEN hit.conversationID ELSE conversation_id
  IN  /\ conversation_id' = conv
      /\ conversation_history' = conversation_history
           \o << [role |-> "user", content |-> r.query], [role |-> "assistant", content |-> hit.response] >>
      /\ history_owner' = history_owner \o <<conv, conv>>
      /\ current_session' = log_query(session, r.query, TRUE, response_time,
                                      IF Truthy(r.prompt_type) THEN r.prompt_type ELSE "auto", r.object_id)
      /\ replies' = replies \cup {Reply(r, path, hit.response, conv, hit, TRUE)}
      /\ req' = [req EXCEPT ![t] = IdleRequest]
      /\ gen_calls' = gen_calls \cup {[rid |-> r.rid, query |-> r.full_query, objectID |-> r.object_id]}
      /\ UNCHANGED uuids

\* a faulty variant of the hit path: the stored answer is returned and the
\* outcome is not recorded
AnswerCachedUnlogged(t, path, hit, session, response_time) ==
  LET r    == [req[t] EXCEPT !.lookup_conv = conversation_id]
      conv == IF ~Truthy(conversation_id) THEN hit.conversationID ELSE conversation_id
  IN  /\ conversation_id' = conv
      /\ conversation_history' = conversation_history
           \o << [role |-> "user", content |-> r.query], [role |-> "assistant", content |-> hit.response] >>
      /\ history_owner' = history_owner \o <<conv, conv>>
      /\ current_session' = session
      /\ replies' = replies \cup {Reply(r, path, hit.response, conv, hit, TRUE)}
      /\ req' = [req EXCEPT ![t] = IdleRequest]
      /\ UNCHANGED <<uuids, gen_calls>>

\* process_query, lines 1413-1446: the cached record `hit` is answered
AnswerCached(t, path, hit, session, response_time) ==
  LET r    == [req[t] EXCEPT !.lookup_conv = conversation_id]
      conv == IF ~Truthy(conversation_id) THEN hit.conversationID ELSE conversation_id
  IN  /\ conversation_id' = conv
      /\ conversation_history' = conversation_history
           \o << [role |-> "user", content |-> r.query], [role |-> "assistant", content |-> hit.response] >>
      /\ history_owner' = history_owner \o <<conv, conv>>
      /\ current_session' = log_query(session, r.query, TRUE, response_time,
                                      IF Truthy(r.prompt_type) THEN r.prompt_type ELSE "auto", r.object_id)
      /\ replies' = replies \cup {Reply(r, path, hit.response, conv, hit, TRUE)}
      /\ req' = [req EXCEPT ![t] = IdleRequest]
      /\ UNCHANGED <<uuids, gen_calls>>

\* a faulty variant of the end of the lookup: what find_previous_response met is
\* raised to the handler of process_query instead of being answered by generation
RaiseAfterLookup(t, r, session) ==
  /\ current_session' = log_query(log_error(session, "Query Processing Error", "index unavailable"),
                                  r.query, FALSE, 3, "auto", None)
  /\ replies' = replies \cup {Reply([r EXCEPT !.errors = <<"Query Processing Error">>], "exception",
                                     DegradedGeneric, conversation_id, NoHit, FALSE)}
  /\ req' = [req EXCEPT ![t] = IdleRequest]
  /\ UNCHANGED <<conv_vars, gen_calls>>

\* a faulty variant of the end of the lookup: with no match found the request is
\* answered with an apology and logged as a miss, and generation is not called
ApologiseAfterLookup(t, r, session) ==
  /\ current_session' = log_query(session, r.query, FALSE, 3,
                                  IF Truthy(r.prompt_type) THEN r.prompt_type ELSE "auto", r.object_id)
  /\ replies' = replies \cup {Reply(r, "request_failed", DegradedGeneric, conversation_id, NoHit, FALSE)}
  /\ req' = [req EXCEPT ![t] = IdleRequest]
  /\ UNCHANGED <<conv_vars, gen_calls>>

\* generate_response, lines 1590-1644: the conversation id is generated when there
\* is none, and the request to the generation service is built; r is the request
\* as find_previous_response left it
StartGenerate(t, r, session) ==
  LET conv == IF ~Truthy(conversation_id) THEN "conv-" \o UuidPrefixes[uuids + 1] ELSE conversation_id
  IN  /\ conversation_id' = conv
      /\ uuids' = IF ~Truthy(conversation_id) THEN uuids + 1 ELSE uuids
      /\ current_session' = session
      /\ gen_calls' = gen_calls \cup
           {[ rid            |-> r.rid,
              cid_arg        |-> r.cid_arg,
              query          |-> r.full_query,
              context_owners |-> r.context_owners,
              key_conversation |-> r.key_conversation,
              dataSourceID   |-> r.data_source_id,
              promptID       |-> r.prompt_id,
              objectID       |-> r.object_id,
              useCache       |-> ~Truthy(conv),
              conversationID |-> conv ]}
      /\ req' = [req EXCEPT ![t] = [r EXCEPT !.pc = "post", !.sent_conv = conv]]
      /\ UNCHANGED <<conversation_history, history_owner, replies>>

\* find_previous_response, lines 1164-1169: whether the food-term search is tried
TriesFoodSearch(r) == IsFoodPairingOf[r.raw_query] /\ FoodKeywordsOf[r.raw_query] # <<>>

\* a faulty variant of the direct lookup: the object stored under the key is not
\* returned, and the lookup goes on to the text search
DirectLookupMisses(t, available, response_time) ==
  LET r       == req[t]
      call    == KeyCall(r.rid, EssenceOf[r.raw_query], r.data_source_id, r.prompt_id, conversation_id)
      session == _track_algolia_operation(current_session, "get_operations")
  IN  /\ r.pc = "lookup"
      /\ keys_derived' = Append(keys_derived, call)
      /\ req' = [req EXCEPT ![t].pc = "search", ![t].lookup_conv = conversation_id,
                            ![t].store_failures = IF available THEN @ ELSE Append(@, "get")]
      /\ current_session' = session
      /\ UNCHANGED <<conv_vars, gen_calls, replies>>
      /\ UNCHANGED <<last_used_prompt_type, semantic_matcher, all_sessions, metrics_file, flushed,
                     store_vars, served, recorder, pure>>

\* find_previous_response, lines 1103-1116: the direct get of the object whose id is
\* derived again, under the conversation id of the moment.  `available` is whether
\* the index answers.
DirectLookup(t, available, response_time) ==
  LET r       == req[t]
      call    == KeyCall(r.rid, EssenceOf[r.raw_query], r.data_source_id, r.prompt_id, conversation_id)
      found   == {o \in responses : o.objectID = call.key}
      session == _track_algolia_operation(current_session, "get_operations")
  IN  /\ r.pc = "lookup"
      /\ keys_derived' = Append(keys_derived, call)
      /\ IF available /\ found # {}
         THEN AnswerCached(t, "direct", CHOOSE o \in found : TRUE, session, response_time)
         ELSE /\ req' = [req EXCEPT ![t].pc = "search", ![t].lookup_conv = conversation_id,
                                   ![t].store_failures = IF available THEN @ ELSE Append(@, "get")]
              /\ current_session' = session
              /\ UNCHANGED <<conv_vars, gen_calls, replies>>
      /\ UNCHANGED <<last_used_prompt_type, semantic_matcher, all_sessions, metrics_file, flushed,
                     store_vars, served, recorder, pure>>

\* the hits a search filtered by the data source of request r can return
Searchable(r, n) == HitLists({o \in responses : o.dataSourceID = r.data_source_id}, n)

\* find_previous_response, lines 1123-1162 and 1188-1196: the text search filtered by
\* data source only, and the choice of the best match among its hits; a search that
\* raises ends the lookup with no match
Search(t, available, response_time) ==
  LET r       == req[t]
      session == _track_algolia_operation(current_session, "search_operations")
      Best(hits) == BestMatch([k \in 1..Len(hits) |-> SimilarityOf[r.raw_query][hits[k].query]])
  IN  /\ r.pc = "search"
      /\ \E hits \in IF available THEN Searchable(r, SearchHitsPerPage) ELSE {<<>>} :
           IF available /\ Best(hits)[1] # 0
           THEN AnswerCached(t, "fuzzy", hits[Best(hits)[1]], session, response_time)
           ELSE IF available /\ TriesFoodSearch(r)
           THEN /\ req' = [req EXCEPT ![t].pc = "food_search", ![t].lookup_conv = conversation_id]
                /\ current_session' = session
                /\ UNCHANGED <<conv_vars, gen_calls, replies>>
           ELSE StartGenerate(t, [r EXCEPT !.store_failures = IF available THEN @ ELSE Append(@, "search")],
                              session)
      /\ UNCHANGED <<last_used_prompt_type, semantic_matcher, all_sessions, metrics_file, flushed,
                     store_vars, served, keys_derived, recorder, pure>>

\* find_previous_response, lines 1170-1196: the search on the food terms, whose newest
\* hit is returned whatever its similarity
FoodSearch(t, available, response_time) ==
  LET r       == req[t]
      session == _track_algolia_operation(current_session, "search_operations")
  IN  /\ r.pc = "food_search"
      /\ \E hits \in IF available THEN Searchable(r, FoodHitsPerPage) ELSE {<<>>} :
           IF hits # <<>>
           THEN AnswerCached(t, "food", NewestHit(hits), session, response_time)
           ELSE StartGenerate(t, [r EXCEPT !.store_failures = IF available THEN @ ELSE Append(@, "search")],
                              session)
      /\ UNCHANGED <<last_used_prompt_type, semantic_matcher, all_sessions, metrics_file, flushed,
                     store_vars, served, keys_derived, recorder, pure>>

\* process_query, lines 1468-1501: the response data of generate_response is
\* answered, whatever text it carries.  r is the request as generate_response left it.
AnswerGenerated(t, r, path, response_text, data_conversation_id, session, response_time) ==
  LET conv == IF Truthy(data_conversation_id) THEN data_conversation_id ELSE conversation_id
  IN  /\ conversation_id' = conv
      /\ conversation_history' = conversation_history
           \o << [role |-> "user", content |-> r.query], [role |-> "assistant", content |-> response_text] >>
      /\ history_owner' = history_owner \o <<conv, conv>>
      /\ current_session' = log_query(session, r.query, FALSE, response_time,
                                      IF Truthy(r.prompt_type) THEN r.prompt_type ELSE "auto", r.object_id)
      /\ replies' = replies \cup {Reply(r, path, response_text, conv, NoHit, FALSE)}
      /\ req' = [req EXCEPT ![t] = IdleRequest]
      /\ UNCHANGED <<uuids, gen_calls>>

\* a faulty variant of the corrected object: the prompt and the data source are
\* those of the service's defaults, not those of the request
uncorrected_object(r, created_at) ==
  [ objectID       |-> r.object_id,
    query          |-> r.full_query,
    response       |-> r.response,
    dataSourceID   |-> "ds_of_backend",
    promptID       |-> "prompt_of_backend",
    conversationID |-> r.response_conv,
    createdAt      |-> created_at ]

\* generate_response, lines 1680-1688
corrected_object(r, created_at) ==
  [ objectID       |-> r.object_id,
    query          |-> r.full_query,
    response       |-> r.response,
    dataSourceID   |-> r.data_source_id,
    promptID       |-> r.prompt_id,
    conversationID |-> r.response_conv,
    createdAt      |-> created_at ]

\* a faulty variant of the write: the object is added to the index whatever it
\* holds under that objectID
SaveObjectAgain(index, object) == index \cup {object}

\* index.save_object: the object replaces the one of the same objectID
SaveObject(index, object) == {o \in index : o.objectID # object.objectID} \cup {object}

\* generate_response, lines 1649-1664 and 1696: the POST succeeds with an answer
\* the service took from its cache, which is returned without a write
PostCached(t, answer, response_time) ==
  /\ req[t].pc = "post"
  /\ AnswerGenerated(t, req[t], "generated", answer, conversation_id, current_session, response_time)
  /\ UNCHANGED <<last_used_prompt_type, semantic_matcher, all_sessions, metrics_file, flushed,
                 store_vars, served, keys_derived, recorder, pure>>

\* generate_response, lines 1649-1688: the POST succeeds with a fresh answer and the
\* corrected object is built.  (The verification read of lines 1667-1673 changes
\* nothing.)
PostFresh(t, answer) ==
  /\ req[t].pc = "post"
  /\ req' = [req EXCEPT ![t].pc = "save", ![t].response = answer,
                        ![t].response_conv = conversation_id]
  /\ UNCHANGED <<conv_vars, last_used_prompt_type, semantic_matcher, metrics_vars, store_vars,
                 served, keys_derived, gen_calls, replies, recorder, pure>>

\* a faulty variant of the write: a write that fails is raised to the handler of
\* process_query
SaveOrRaise(t, written, response_time) ==
  /\ req[t].pc = "save"
  /\ IF written
     THEN /\ responses' = SaveObject(responses, corrected_object(req[t], clock + 1))
          /\ clock' = clock + 1
          /\ AnswerGenerated(t, [req[t] EXCEPT !.written = TRUE, !.written_at = clock + 1], "generated", req[t].response, req[t].response_conv,
                             current_session, response_time)
     ELSE /\ current_session' = log_query(log_error(current_session, "Query Processing Error", "write failed"),
                                          req[t].query, FALSE, response_time, "auto", None)
          /\ replies' = replies \cup {Reply([req[t] EXCEPT !.store_failures = Append(@, "save")],
                                             "exception", DegradedGeneric, conversation_id, NoHit, FALSE)}
          /\ req' = [req EXCEPT ![t] = IdleRequest]
          /\ UNCHANGED <<conv_vars, gen_calls, store_vars>>
  /\ UNCHANGED <<last_used_prompt_type, semantic_matcher, all_sessions, metrics_file, flushed,
                 served, keys_derived, recorder, pure>>

\* generate_response, lines 1690-1696: the write of the corrected object, whose failure
\* is only printed, and the return to process_query
SaveCorrected(t, written, response_time) ==
  /\ req[t].pc = "save"
  /\ IF written
     THEN /\ responses' = SaveObject(responses, corrected_object(req[t], clock + 1))
          /\ clock' = clock + 1
     ELSE UNCHANGED store_vars
  /\ AnswerGenerated(t, [req[t] EXCEPT !.store_failures = IF written THEN @ ELSE Append(@, "save"),
                                        !.written = written,
                                        !.written_at = IF written THEN clock + 1 ELSE 0],
                     "generated", req[t].response, req[t].response_conv,
                     current_session, response_time)
  /\ UNCHANGED <<last_used_prompt_type, semantic_matcher, all_sessions, metrics_file, flushed,
                 served, keys_derived, recorder, pure>>

\* the failures of one attempt that are retried: HTTP 429, and an exception that is
\* no RequestException
RetriedFailures == {"rate_limit"}

\* generate_response, lines 1697-1708, 1718-1728 and 1730-1735: the attempt fails
\* with a failure that is retried; the error is logged, the delay doubled and the
\* next attempt made, and after the last attempt the apology is returned as
\* response data
PostRetried(t, failure, response_time) ==
  LET error_type == IF failure = "rate_limit" THEN "API Error" ELSE "General Error"
      r       == [req[t] EXCEPT !.attempt = @ + 1, !.retry_delay = 2 * @,
                                !.failures = Append(@, failure),
                                !.errors = Append(@, error_type)]
      session == log_error(current_session, error_type, "Attempt " \o AttemptText[r.attempt] \o ": " \o failure)
  IN  /\ req[t].pc = "post"
      /\ IF r.attempt < max_retries
         THEN /\ req' = [req EXCEPT ![t] = r]
              /\ current_session' = session
              /\ UNCHANGED <<conv_vars, gen_calls, replies>>
         ELSE AnswerGenerated(t, r, "retries_exhausted", DegradedRetries, conversation_id,
                              session, response_time)
      /\ UNCHANGED <<last_used_prompt_type, semantic_matcher, all_sessions, metrics_file, flushed,
                     store_vars, served, keys_derived, recorder, pure>>

\* a faulty variant of PostFailed: every RequestException is retried
RetriedLikeRateLimit(t, failure, response_time) == PostRetried(t, failure, response_time)

\* a faulty variant of PostFailed: the error text is written to the index as the
\* answer of the request
PostFailedAndStored(t, failure, response_time) ==
  LET r == [req[t] EXCEPT !.failures = Append(@, failure), !.errors = Append(@, "API Error"),
                          !.response = DegradedHttp, !.response_conv = conversation_id,
                          !.written = TRUE, !.written_at = clock + 1]
  IN  /\ req[t].pc = "post"
      /\ responses' = SaveObject(responses, corrected_object(r, clock + 1))
      /\ clock' = clock + 1
      /\ AnswerGenerated(t, r, "request_failed", DegradedHttp, conversation_id,
                         log_error(current_session, "API Error",
                                   "Attempt " \o AttemptText[req[t].attempt + 1] \o ": " \o failure),
                         response_time)
      /\ UNCHANGED <<last_used_prompt_type, semantic_matcher, all_sessions, metrics_file, flushed,
                     served, keys_derived, recorder, pure>>

\* the other failures of one attempt that raise a RequestException: an HTTP status
\* of the 5xx class and one of the 4xx class other than 429 (raise_for_status)
RequestErrors == {"server_error", "client_error"}

\* generate_response, lines 1697-1703 and 1709-1717: the attempt fails with another
\* RequestException; the error is logged and the error text returned as response data
PostFailed(t, failure, response_time) ==
  LET r == [req[t] EXCEPT !.failures = Append(@, failure), !.errors = Append(@, "API Error")]
  IN  /\ req[t].pc = "post"
      /\ AnswerGenerated(t, r, "request_failed", DegradedHttp, conversation_id,
                         log_error(current_session, "API Error",
                                   "Attempt " \o AttemptText[req[t].attempt + 1] \o ": " \o failure),
                         response_time)
      /\ UNCHANGED <<last_used_prompt_type, semantic_matcher, all_sessions, metrics_file, flushed,
                     store_vars, served, keys_derived, recorder, pure>>

(***************************************************************************)
(* The other operations of the assistant                                   *)
(***************************************************************************)
\* no call of process_query is under way
Idle == \A t \in Threads : req[t].pc = "idle"

clear_conversation ==
  /\ Idle
  /\ conversation_history' = <<>>
  /\ history_owner' = <<>>
  /\ conversation_id' = None
  /\ UNCHANGED <<last_used_prompt_type, uuids, semantic_matcher, metrics_vars, store_vars,
                 request_vars, recorder, pure>>

\* save_metrics: the session gets its end time and derived metrics, and the file is
\* rewritten with all_sessions followed by the session
save_metrics ==
  /\ Idle
  /\ current_session' = ClosedSession(current_session)
  /\ metrics_file' = SavedSessions(all_sessions, ClosedSession(current_session))
  /\ UNCHANGED <<all_sessions, flushed, conv_vars, last_used_prompt_type, semantic_matcher,
                 store_vars, request_vars, recorder, pure>>

\* reset_metrics: save_metrics, then a new session
reset_metrics ==
  /\ Idle
  /\ metrics_file' = SavedSessions(all_sessions, ClosedSession(current_session))
  /\ flushed' = flushed \cup {ClosedSession(current_session)}
  /\ current_session' = NewSession
  /\ UNCHANGED <<all_sessions, conv_vars, last_used_prompt_type, semantic_matcher,
                 store_vars, request_vars, recorder, pure>>

\* In Spec the response index answers every read (a write may fail); its failures
\* are the subject of SpecFaults.
Next ==
  \/ \E t \in Threads, q \in Queries, ptype \in PromptTypeArgs, cid \in ConversationArgs,
        matched \in MatcherResults \cup {""} :
       Receive(t, q, ptype, cid, matched)
  \/ \E t \in Threads, q \in Queries, ptype \in PromptTypeArgs, cid \in ConversationArgs,
        error_message \in ErrorMessages, response_time \in ResponseTimes :
       ReceiveRaises(t, q, ptype, cid, error_message, response_time)
  \/ \E t \in Threads, available \in {TRUE}, response_time \in ResponseTimes :
       DirectLookup(t, available, response_time)
  \/ \E t \in Threads, available \in {TRUE}, response_time \in ResponseTimes :
       Search(t, available, response_time)
  \/ \E t \in Threads, available \in {TRUE}, response_time \in ResponseTimes :
       FoodSearch(t, available, response_time)
  \/ \E t \in Threads, answer \in Answers, response_time \in ResponseTimes :
       PostCached(t, answer, response_time)
  \/ \E t \in Threads, answer \in Answers : PostFresh(t, answer)
  \/ \E t \in Threads, written \in BOOLEAN, response_time \in ResponseTimes :
       SaveCorrected(t, written, response_time)
  \/ \E t \in Threads, failure \in RetriedFailures, response_time \in ResponseTimes :
       PostRetried(t, failure, response_time)
  \/ \E t \in Threads, failure \in RequestErrors, response_time \in ResponseTimes :
       PostFailed(t, failure, response_time)
  \/ clear_conversation

Spec == Init /\ [][Next]_vars

(***************************************************************************)
(* The key derivation applied to two queries side by side                  *)
(***************************************************************************)
\* the data sources, prompts and conversation ids the two derivations are made under
KeyDataSources == {data_sources["all_wines"], data_sources["red_wines"]}

KeyPrompts == {prompts["sommelier"], prompts["food_pairing"]}

KeyConversations == {None, "convA", "convB"}

KeyInput == [query : Queries, data_source_id : KeyDataSources, prompt_id : KeyPrompts,
             conversation_id : KeyConversations]

assistant_vars == <<conversation_id, conversation_history, last_used_prompt_type, semantic_matcher,
                    current_session, all_sessions, metrics_file, responses, clock, uuids, req, served,
                    history_owner, keys_derived, gen_calls, replies, flushed, recorder>>

InitKey ==
  /\ Constructed
  /\ pure \in [op : {"key"}, stage : {"input"}, left : KeyInput, right : KeyInput]

\* _get_query_essence with its classification, for one side
Normalized(input) ==
  [ query           |-> input.query,
    data_source_id  |-> input.data_source_id,
    prompt_id       |-> input.prompt_id,
    conversation_id |-> input.conversation_id,
    is_food_pairing |-> IsFoodPairingOf[input.query],
    food_items      |-> FoodKeywordsOf[input.query],
    essence         |-> EssenceOf[input.query] ]

GetEssence ==
  /\ pure.op = "key" /\ pure.stage = "input"
  /\ pure' = [pure EXCEPT !.stage = "essence", !.left = Normalized(@), !.right = Normalized(@)]
  /\ UNCHANGED assistant_vars

\* _generate_stable_id while self.conversation_id is the side's conversation id
Derived(side) ==
  [ query           |-> side.query,
    data_source_id  |-> side.data_source_id,
    prompt_id       |-> side.prompt_id,
    conversation_id |-> side.conversation_id,
    is_food_pairing |-> side.is_food_pairing,
    food_items      |-> side.food_items,
    essence         |-> side.essence,
    key             |-> _generate_stable_id(side.essence, side.data_source_id, side.prompt_id,
                                            side.conversation_id) ]

GenerateStableId ==
  /\ pure.op = "key" /\ pure.stage = "essence"
  /\ pure' = [pure EXCEPT !.stage = "key", !.left = Derived(@), !.right = Derived(@)]
  /\ UNCHANGED assistant_vars

NextKey == GetEssence \/ GenerateStableId

SpecKey == InitKey /\ [][NextKey]_vars

(***************************************************************************)
(* The choice of the best match among the hits of the text search          *)
(***************************************************************************)
\* hits of one search
MaxHits == 2

FuzzyQueries == {"which red wine goes well with grilled lamb chops tonight", "tell me about merlot"}

\* the `query` of stored records: the query alone, or behind its context
FuzzyStored ==
  { "which red wine goes well with grilled lamb chops tonight",
    "Which red wine goes well with grilled lamb",
    "which red wine goes well with grilled",
    ContextStart \o "\n\nUser: Which red wine goes well with grilled",
    ContextStart \o "\n\nUser: tell me about merlot",
    "" }

InitFuzzy ==
  /\ Constructed
  /\ pure \in [op : {"best_match"}, stage : {"input"}, user_query_only : {UserPart(q) : q \in FuzzyQueries},
               hits : HitLists({[query |-> s] : s \in FuzzyStored}, MaxHits)]

\* find_previous_response, lines 1140-1150: the similarity of one hit
HitSimilarity(user_query_only, hit) == _calculate_text_similarity(user_query_only, UserPart(hit.query))

\* find_previous_response, lines 1134-1162
FindBestMatch ==
  LET best == BestMatch([k \in 1..Len(pure.hits) |-> HitSimilarity(pure.user_query_only, pure.hits[k])])
  IN  /\ pure.op = "best_match" /\ pure.stage = "input"
      /\ pure' = [op |-> "best_match", stage |-> "done", user_query_only |-> pure.user_query_only,
                  hits |-> pure.hits, best_match |-> best[1], best_score |-> best[2]]
      /\ UNCHANGED assistant_vars

SpecFuzzy == InitFuzzy /\ [][FindBestMatch]_vars
(***************************************************************************)
(* The session metrics on their own: the outcomes of one session recorded  *)
(* one after another, and the reset that closes it                         *)
(***************************************************************************)
\* outcomes recorded in one run of ten queries
MaxLogged == 10

\* errors logged in one session
MaxErrors == 1

\* calls of reset_metrics in one run of ten queries
MaxResets == 1

\* one outcome is recorded: log_query as process_query calls it
LogQuery(max, is_cache_hit, response_time) ==
  /\ served < max
  /\ served' = served + 1
  /\ current_session' = log_query(current_session, "tell me about merlot", is_cache_hit,
                                  response_time, "auto", None)
  /\ UNCHANGED <<conv_vars, last_used_prompt_type, semantic_matcher, all_sessions, metrics_file,
                 flushed, store_vars, req, keys_derived, gen_calls, replies, recorder, pure>>

LogError ==
  /\ current_session.api_errors < MaxErrors
  /\ current_session' = log_error(current_session, "API Error", "Attempt 1: rate_limit")
  /\ UNCHANGED <<conv_vars, last_used_prompt_type, semantic_matcher, all_sessions, metrics_file,
                 flushed, store_vars, request_vars, recorder, pure>>

ResetMetrics(max) == Cardinality(flushed) < max /\ reset_metrics

NextMetrics ==
  \/ \E is_cache_hit \in BOOLEAN, response_time \in ResponseTimes :
       LogQuery(MaxLogged, is_cache_hit, response_time)
  \/ LogError
  \/ ResetMetrics(MaxResets)

SpecMetrics == Init /\ [][NextMetrics]_vars

(***************************************************************************)
(* Several sessions of one assistant: a few outcomes, saves and resets     *)
(***************************************************************************)
\* outcomes recorded in one run of several sessions
MaxHistoryLogged == 3

\* calls of reset_metrics in one run of several sessions
MaxHistoryResets == 3

NextHistory ==
  \/ \E is_cache_hit \in BOOLEAN, response_time \in ResponseTimes :
       LogQuery(MaxHistoryLogged, is_cache_hit, response_time)
  \/ LogError
  \/ save_metrics
  \/ ResetMetrics(MaxHistoryResets)

SpecHistory == Init /\ [][NextHistory]_vars

(***************************************************************************)
(* log_query called from the threads of the front end.  Each `x += 1` on a *)
(* counter of the session is a read followed by a write, and another       *)
(* thread may run between the two; list.append is one step.                *)
(***************************************************************************)
\* calls of log_query in one run
MaxRecorded == 3

\* log_query is entered with its outcome (app.py line 56, process_query lines 1435 and 1490)
EnterLogQuery(t, is_cache_hit, response_time) ==
  /\ recorder[t].pc = "idle"
  /\ served < MaxRecorded
  /\ served' = served + 1
  /\ recorder' = [recorder EXCEPT ![t] =
                    [pc |-> "read_total", is_cache_hit |-> is_cache_hit,
                     response_time |-> response_time, read |-> 0]]
  /\ UNCHANGED <<conv_vars, last_used_prompt_type, semantic_matcher, metrics_vars, store_vars,
                 req, keys_derived, gen_calls, replies, pure>>

OutcomeCounter(t) == IF recorder[t].is_cache_hit THEN "cache_hits" ELSE "cache_misses"

\* line 300, the read of total_queries
ReadTotal(t) ==
  /\ recorder[t].pc = "read_total"
  /\ recorder' = [recorder EXCEPT ![t].pc = "write_total", ![t].read = current_session.total_queries]
  /\ UNCHANGED <<conv_vars, last_used_prompt_type, semantic_matcher, metrics_vars, store_vars,
                 request_vars, pure>>

\* line 300, the write of total_queries
WriteTotal(t) ==
  /\ recorder[t].pc = "write_total"
  /\ current_session' = [current_session EXCEPT !.total_queries = recorder[t].read + 1]
  /\ recorder' = [recorder EXCEPT ![t].pc = "read_outcome"]
  /\ UNCHANGED <<conv_vars, last_used_prompt_type, semantic_matcher, all_sessions, metrics_file,
                 flushed, store_vars, request_vars, pure>>

\* lines 303 and 306, the read of cache_hits or cache_misses
ReadOutcome(t) ==
  /\ recorder[t].pc = "read_outcome"
  /\ recorder' = [recorder EXCEPT ![t].pc = "write_outcome",
                                  ![t].read = current_session[OutcomeCounter(t)]]
  /\ UNCHANGED <<conv_vars, last_used_prompt_type, semantic_matcher, metrics_vars, store_vars,
                 request_vars, pure>>

\* lines 303 and 306, the write of cache_hits or cache_misses
WriteOutcome(t) ==
  /\ recorder[t].pc = "write_outcome"
  /\ current_session' = [current_session EXCEPT ![OutcomeCounter(t)] = recorder[t].read + 1]
  /\ recorder' = [recorder EXCEPT ![t].pc = "append"]
  /\ UNCHANGED <<conv_vars, last_used_prompt_type, semantic_matcher, all_sessions, metrics_file,
                 flushed, store_vars, request_vars, pure>>

\* lines 304, 307, 309 and 312-333: the appends to the latency lists, the table of the
\* query types and the append to the query log
AppendEntry(t) ==
  LET r       == recorder[t]
      logged  == log_query(current_session, "tell me about merlot", r.is_cache_hit,
                           r.response_time, "auto", None)
  IN  /\ r.pc = "append"
      /\ current_session' = [logged EXCEPT !.total_queries = current_session.total_queries,
                                           !.cache_hits    = current_session.cache_hits,
                                           !.cache_misses  = current_session.cache_misses]
      /\ recorder' = [recorder EXCEPT ![t] = IdleRecorder]
      /\ UNCHANGED <<conv_vars, last_used_prompt_type, semantic_matcher, all_sessions, metrics_file,
                     flushed, store_vars, request_vars, pure>>

NextConc ==
  \/ \E t \in FrontEndThreads, is_cache_hit \in BOOLEAN, response_time \in ResponseTimes :
       EnterLogQuery(t, is_cache_hit, response_time)
  \/ \E t \in FrontEndThreads : ReadTotal(t)
  \/ \E t \in FrontEndThreads : WriteTotal(t)
  \/ \E t \in FrontEndThreads : ReadOutcome(t)
  \/ \E t \in FrontEndThreads : WriteOutcome(t)
  \/ \E t \in FrontEndThreads : AppendEntry(t)

SpecConc == Init /\ [][NextConc]_vars

(***************************************************************************)
(* process_query with a response index and a generation service that fail: *)
(* every read and write of the index may raise, and every attempt of the   *)
(* POST may fail in each of the ways generate_response tells apart         *)
(***************************************************************************)
\* the query texts submitted in SpecFaults
FaultQueries == {"What wine pairs with steak?"}

\* the failures of one attempt that are retried: HTTP 429, and an exception that is
\* no RequestException
RetriedFaults == RetriedFailures \cup {"unexpected"}

NextFaults ==
  \/ \E t \in Threads, q \in FaultQueries, ptype \in PromptTypeArgs, matched \in MatcherResults \cup {""} :
       Receive(t, q, ptype, None, matched)
  \/ \E t \in Threads, q \in Queries, ptype \in PromptTypeArgs, cid \in ConversationArgs,
        error_message \in ErrorMessages, response_time \in ResponseTimes :
       ReceiveRaises(t, q, ptype, cid, error_message, response_time)
  \/ \E t \in Threads, available \in BOOLEAN, response_time \in ResponseTimes :
       DirectLookup(t, available, response_time)
  \/ \E t \in Threads, available \in BOOLEAN, response_time \in ResponseTimes :
       Search(t, available, response_time)
  \/ \E t \in Threads, available \in BOOLEAN, response_time \in ResponseTimes :
       FoodSearch(t, available, response_time)
  \/ \E t \in Threads, answer \in Answers, response_time \in ResponseTimes :
       PostCached(t, answer, response_time)
  \/ \E t \in Threads, answer \in Answers : PostFresh(t, answer)
  \/ \E t \in Threads, written \in BOOLEAN, response_time \in ResponseTimes :
       SaveCorrected(t, written, response_time)
  \/ \E t \in Threads, failure \in RetriedFaults, response_time \in ResponseTimes :
       PostRetried(t, failure, response_time)
  \/ \E t \in Threads, failure \in RequestErrors, response_time \in ResponseTimes :
       PostFailed(t, failure, response_time)

SpecFaults == Init /\ [][NextFaults]_vars

(***************************************************************************)
(* The same, with a generation service that may also leave a POST without  *)
(* an answer.  requests.post is called without a timeout (line 1649), so   *)
(* the call then never returns.  The thread that runs process_query takes  *)
(* every step it can take.                                                 *)
(***************************************************************************)
\* generate_response, line 1649: the POST is sent and no answer ever arrives
PostUnanswered(t) ==
  /\ req[t].pc = "post"
  /\ req' = [req EXCEPT ![t].pc = "blocked"]
  /\ UNCHANGED <<conv_vars, last_used_prompt_type, semantic_matcher, metrics_vars, store_vars,
                 served, keys_derived, gen_calls, replies, recorder, pure>>

\* the steps of the requests under way
RequestStep ==
  \/ \E t \in Threads, available \in BOOLEAN, response_time \in ResponseTimes :
       DirectLookup(t, available, response_time)
  \/ \E t \in Threads, available \in BOOLEAN, response_time \in ResponseTimes :
       Search(t, available, response_time)
  \/ \E t \in Threads, available \in BOOLEAN, response_time \in ResponseTimes :
       FoodSearch(t, available, response_time)
  \/ \E t \in Threads, answer \in Answers, response_time \in ResponseTimes :
       PostCached(t, answer, response_time)
  \/ \E t \in Threads, answer \in Answers : PostFresh(t, answer)
  \/ \E t \in Threads, written \in BOOLEAN, response_time \in ResponseTimes :
       SaveCorrected(t, written, response_time)
  \/ \E t \in Threads, failure \in RetriedFaults, response_time \in ResponseTimes :
       PostRetried(t, failure, response_time)
  \/ \E t \in Threads, failure \in RequestErrors, response_time \in ResponseTimes :
       PostFailed(t, failure, response_time)

NextService ==
  \/ NextFaults
  \/ \E t \in Threads : PostUnanswered(t)

SpecService == Init /\ [][NextService]_vars /\ WF_vars(RequestStep)

(***************************************************************************)
(* The query sent to the generation service, built from a history and a    *)
(* query text (process_query, lines 1379-1394)                             *)
(***************************************************************************)
\* the text c repeated n times
RECURSIVE Repeated(_, _)
Repeated(c, n) ==
  IF n = 0 THEN ""
  ELSE IF n = 1 THEN c
  ELSE Let(Repeated(c, n \div 2), LAMBDA half : half \o half \o (IF n % 2 = 1 THEN c ELSE ""))

\* query texts: short ones, one longer than max_query_length, and ones of two-byte
\* and three-byte characters, shorter and longer than max_query_length
ContextQueries ==
  { "tell me about merlot",
    "a dry rosé for under 20 €?",
    Repeated("wine ", 92),
    Repeated("é", 254),
    Repeated("é", 451),
    Repeated("€", 170) }

\* the histories: none, and one exchange of a query and an answer, short or long,
\* of one-byte, two-byte or three-byte characters
ContextHistories ==
  {<<>>} \cup {<<[role |-> "user", content |-> TruncatedQuery(q)], [role |-> "assistant", content |-> a]>> :
                 q \in ContextQueries,
                 a \in {"Try a Malbec.", Repeated("Malbec ", 20), Repeated("€", 100), Repeated("é", 100)}}

InitContext ==
  /\ Constructed
  /\ pure \in [op : {"context"}, stage : {"input"}, history : ContextHistories,
               query : ContextQueries, context : {""}, full_query : {""}]

\* line 1380
BuildContext ==
  /\ pure.op = "context" /\ pure.stage = "input"
  /\ pure' = [pure EXCEPT !.stage = "context", !.context = _build_conversation_context(pure.history)]
  /\ UNCHANGED assistant_vars

\* lines 1382-1394
BuildFullQuery ==
  /\ pure.op = "context" /\ pure.stage = "context"
  /\ pure' = [pure EXCEPT !.stage = "full_query",
                          !.query = TruncatedQuery(pure.query),
                          !.full_query = FullQuery(pure.context, TruncatedQuery(pure.query))]
  /\ UNCHANGED assistant_vars

NextContext == BuildContext \/ BuildFullQuery

SpecContext == InitContext /\ [][NextContext]_vars

(***************************************************************************)
(* The entry points of a query: the route /api/query of the front end, and *)
(* process_query called on the assistant itself                            *)
(***************************************************************************)
\* the query texts that arrive
EntryQueries == EmptyQueries \cup {"tell me about merlot"}

\* requests the front end answers with status 400 in one run
MaxRejected == 2

InitEntry == Constructed /\ pure = [op |-> "entry", rejected |-> 0]

\* app.py, lines 46-56: the route answers 400 when the query is missing or empty and
\* calls process_query(query, prompt_type) otherwise
ApiQuery(t, q, ptype, matched) ==
  IF ~Truthy(q)
  THEN /\ pure.op = "entry" /\ pure.rejected < MaxRejected
       /\ pure' = [pure EXCEPT !.rejected = @ + 1]
       /\ UNCHANGED assistant_vars
  ELSE Receive(t, q, ptype, None, matched)

NextEntry ==
  \/ \E t \in Threads, q \in EntryQueries, ptype \in PromptTypeArgs, matched \in MatcherResults \cup {""} :
       ApiQuery(t, q, ptype, matched)
  \/ \E t \in Threads, q \in EntryQueries, ptype \in PromptTypeArgs, matched \in MatcherResults \cup {""} :
       Receive(t, q, ptype, None, matched)
  \/ \E t \in Threads, response_time \in ResponseTimes : DirectLookup(t, TRUE, response_time)
  \/ \E t \in Threads, response_time \in ResponseTimes : Search(t, TRUE, response_time)
  \/ \E t \in Threads, answer \in Answers : PostFresh(t, answer)
  \/ \E t \in Threads, response_time \in ResponseTimes : SaveCorrected(t, TRUE, response_time)

SpecEntry == InitEntry /\ [][NextEntry]_vars

\* ---------------------------------------------------------------------------
\* The /api/query route of app.py after process_query has returned
\* ---------------------------------------------------------------------------

\* app.py, lines 68 and 128: the entries of the query log the front end looks at
RecentLogEntries == 10

ApiQueries == {"tell me about merlot", "What wine pairs with steak?"}

InitApi == Constructed /\ pure = [op |-> "api", returned |-> <<>>]

\* app.py, lines 58-86: with process_query returned, the route selects the prompt
\* and derives the key once more, looks for a logged hit with that key among the
\* latest entries of the query log, and returns the flag with the response
ApiRespond(t, matched) ==
  LET r        == CHOOSE x \in replies : x.rid = served
      query    == r.raw_query
      consults == semantic_matcher
                  /\ SelectBeforeMatcher(query, r.prompt_type_arg, conversation_history, last_used_prompt_type) = <<>>
      sel      == _select_prompt(query, r.prompt_type_arg, conversation_history, last_used_prompt_type, matched)
      object_id == _generate_stable_id(EssenceOf[query], DataSourceOf[query], sel[1], conversation_id)
      log      == current_session.query_log
      recent   == {k \in 1..Len(log) : k > Len(log) - RecentLogEntries}
      is_cache_hit  == \E k \in recent : log[k].object_id = object_id /\ log[k].cache_hit
      response_time == IF log # <<>> /\ log[Len(log)].object_id = object_id
                       THEN log[Len(log)].response_time ELSE 0
  IN  /\ pure.op = "api"
      /\ req[t].pc = "idle"
      /\ Len(pure.returned) < served
      /\ \E x \in replies : x.rid = served
      /\ IF consults THEN matched \in MatcherResults ELSE matched = ""
      /\ last_used_prompt_type' = sel[2]
      /\ pure' = [pure EXCEPT !.returned = Append(@, [ rid           |-> served,
                                                        response      |-> r.response,
                                                        cache_hit     |-> is_cache_hit,
                                                        response_time |-> response_time,
                                                        object_id     |-> object_id ])]
      /\ UNCHANGED <<conv_vars, semantic_matcher, metrics_vars, store_vars, request_vars, recorder>>

\* the requests of the route are taken one after the other, each answered before
\* the next or the clear-conversation route is taken
NextApi ==
  \/ \E t \in Threads, q \in ApiQueries, ptype \in PromptTypeArgs, matched \in MatcherResults \cup {""} :
       /\ pure.op = "api" /\ Idle /\ Len(pure.returned) = served
       /\ ApiQuery(t, q, ptype, matched)
  \/ \E t \in Threads, response_time \in ResponseTimes : DirectLookup(t, TRUE, response_time)
  \/ \E t \in Threads, response_time \in ResponseTimes : Search(t, TRUE, response_time)
  \/ \E t \in Threads, response_time \in ResponseTimes : FoodSearch(t, TRUE, response_time)
  \/ \E t \in Threads, answer \in Answers : PostFresh(t, answer)
  \/ \E t \in Threads, response_time \in ResponseTimes : SaveCorrected(t, TRUE, response_time)
  \/ \E t \in Threads, matched \in MatcherResults \cup {""} : ApiRespond(t, matched)
  \/ pure.op = "api" /\ Idle /\ Len(pure.returned) = served /\ clear_conversation

SpecApi == InitApi /\ [][NextApi]_vars

\* ---------------------------------------------------------------------------
\* Requests of one named conversation whose lookups may fail, so that an answer
\* is generated and written again under a key that is already stored
\* ---------------------------------------------------------------------------

NextRewrite ==
  \/ \E t \in Threads, q \in ApiQueries, ptype \in PromptTypeArgs, matched \in MatcherResults \cup {""} :
       Receive(t, q, ptype, "convA", matched)
  \/ \E t \in Threads, available \in BOOLEAN, response_time \in ResponseTimes :
       DirectLookup(t, available, response_time)
  \/ \E t \in Threads, available \in BOOLEAN, response_time \in ResponseTimes :
       Search(t, available, response_time)
  \/ \E t \in Threads, available \in BOOLEAN, response_time \in ResponseTimes :
       FoodSearch(t, available, response_time)
  \/ \E t \in Threads, answer \in Answers : PostFresh(t, answer)
  \/ \E t \in Threads, written \in BOOLEAN, response_time \in ResponseTimes :
       SaveCorrected(t, written, response_time)

SpecRewrite == Init /\ [][NextRewrite]_vars

\* ---------------------------------------------------------------------------
\* The essence and the key of two texts written with other letter case or with
\* role markers
\* ---------------------------------------------------------------------------

MarkerQueries ==
  { "tell me about merlot", "Tell Me About MERLOT", "user: tell me about merlot",
    "User: Tell me about Merlot", "assistant: tell me about merlot",
    "What wine pairs with steak?", "WHAT WINE PAIRS WITH STEAK?", "User: What wine pairs with steak?" }

InitMarkers ==
  /\ Constructed
  /\ pure \in [op : {"markers"}, stage : {"input"}, left : MarkerQueries, right : MarkerQueries,
               conversation_id : KeyConversations]

\* process_query, line 1399, for both texts
EssenceOfBoth ==
  /\ pure.op = "markers" /\ pure.stage = "input"
  /\ pure' = [ op |-> "markers", stage |-> "essence", left |-> pure.left, right |-> pure.right,
               conversation_id |-> pure.conversation_id,
               left_essence  |-> _get_query_essence(pure.left),
               right_essence |-> _get_query_essence(pure.right) ]
  /\ UNCHANGED assistant_vars

\* process_query, line 1400, for both texts with one data source, one prompt and
\* one conversation
KeyOfBoth ==
  /\ pure.op = "markers" /\ pure.stage = "essence"
  /\ pure' = [ op |-> "markers", stage |-> "key", left |-> pure.left, right |-> pure.right,
               conversation_id |-> pure.conversation_id,
               left_essence  |-> pure.left_essence,
               right_essence |-> pure.right_essence,
               left_key  |-> _generate_stable_id(pure.left_essence, data_sources["all_wines"],
                                                 prompts["sommelier"], pure.conversation_id),
               right_key |-> _generate_stable_id(pure.right_essence, data_sources["all_wines"],
                                                 prompts["sommelier"], pure.conversation_id) ]
  /\ UNCHANGED assistant_vars

NextMarkers == EssenceOfBoth \/ KeyOfBoth

SpecMarkers == InitMarkers /\ [][NextMarkers]_vars

\* ---------------------------------------------------------------------------
\* The similarity of two texts, in both orders and of a text with itself
\* ---------------------------------------------------------------------------

SimilarityTexts ==
  { "", " ", "merlot", "Merlot", "tell me about merlot", "tell me about merlot merlot",
    "about merlot tell me", "What wine pairs with steak?", "what wine pairs with lamb",
    "which red wine goes well with grilled lamb chops tonight", "red  wine\twith lamb" }

InitSimilarity ==
  /\ Constructed
  /\ pure \in [op : {"similarity"}, stage : {"input"}, text1 : SimilarityTexts, text2 : SimilarityTexts]

\* _calculate_text_similarity(text1, text2), (text2, text1) and (text1, text1)
CalculateTextSimilarity ==
  /\ pure.op = "similarity" /\ pure.stage = "input"
  /\ pure' = [ op |-> "similarity", stage |-> "done", text1 |-> pure.text1, text2 |-> pure.text2,
               forward  |-> _calculate_text_similarity(pure.text1, pure.text2),
               backward |-> _calculate_text_similarity(pure.text2, pure.text1),
               itself   |-> _calculate_text_similarity(pure.text1, pure.text1) ]
  /\ UNCHANGED assistant_vars

SpecSimilarity == InitSimilarity /\ [][CalculateTextSimilarity]_vars

\* ---------------------------------------------------------------------------
\* The identifiers the generation service returns with its answer
\* ---------------------------------------------------------------------------

\* response.json() of a successful POST: the answer with the identifiers the
\* service gives it, which may be those of the request or its own
BackendData ==
  [ response : Answers,
    promptID : {prompts["sommelier"], "prompt_of_backend"},
    dataSourceID : {data_sources["all_wines"], "ds_of_backend"},
    objectID : {"object_of_backend"} ]

InitAttribution == Constructed /\ pure = [op |-> "backend", returned |-> {}]

\* generate_response, lines 1649-1688: the POST succeeds with a fresh answer and the
\* corrected object is built from the response text alone; what else the service
\* returned is kept here for the record
PostAnswered(t, response_data) ==
  /\ pure.op = "backend"
  /\ req[t].pc = "post"
  /\ req' = [req EXCEPT ![t].pc = "save", ![t].response = response_data.response,
                        ![t].response_conv = conversation_id]
  /\ pure' = [pure EXCEPT !.returned = @ \cup {[rid |-> req[t].rid, data |-> response_data]}]
  /\ UNCHANGED <<conv_vars, last_used_prompt_type, semantic_matcher, metrics_vars, store_vars,
                 served, keys_derived, gen_calls, replies, recorder>>

NextAttribution ==
  \/ \E t \in Threads, q \in ApiQueries, ptype \in PromptTypeArgs, matched \in MatcherResults \cup {""} :
       Receive(t, q, ptype, "convA", matched)
  \/ \E t \in Threads, available \in BOOLEAN, response_time \in ResponseTimes :
       DirectLookup(t, available, response_time)
  \/ \E t \in Threads, available \in BOOLEAN, response_time \in ResponseTimes :
       Search(t, available, response_time)
  \/ \E t \in Threads, available \in BOOLEAN, response_time \in ResponseTimes :
       FoodSearch(t, available, response_time)
  \/ \E t \in Threads, response_data \in BackendData : PostAnswered(t, response_data)
  \/ \E t \in Threads, written \in BOOLEAN, response_time \in ResponseTimes :
       SaveCorrected(t, written, response_time)

SpecAttribution == InitAttribution /\ [][NextAttribution]_vars

\* ---------------------------------------------------------------------------
\* Two request threads of the front end in process_query at the same time
\* ---------------------------------------------------------------------------

RaceQueries == {"tell me about merlot"}

\* the assistant after construction, with a request position for each thread of
\* the front end
InitRace ==
  /\ conversation_id = None
  /\ conversation_history = <<>>
  /\ last_used_prompt_type = ""
  /\ semantic_matcher \in BOOLEAN
  /\ current_session = NewSession
  /\ all_sessions = <<>>
  /\ metrics_file = <<>>
  /\ responses = {}
  /\ clock = 0
  /\ uuids = 0
  /\ req = [t \in FrontEndThreads |-> IdleRequest]
  /\ served = 0
  /\ history_owner = <<>>
  /\ keys_derived = <<>>
  /\ gen_calls = {}
  /\ replies = {}
  /\ flushed = {}
  /\ recorder = [t \in FrontEndThreads |-> IdleRecorder]
  /\ pure = NoPure

\* the threads run process_query on the one assistant; a thread may be overtaken
\* by the other wherever it waits for the index or for the generation service
NextRace ==
  \/ \E t \in FrontEndThreads, q \in RaceQueries, ptype \in PromptTypeArgs, matched \in MatcherResults \cup {""} :
       Receive(t, q, ptype, None, matched)
  \/ \E t \in FrontEndThreads, response_time \in ResponseTimes : DirectLookup(t, TRUE, response_time)
  \/ \E t \in FrontEndThreads, response_time \in ResponseTimes : Search(t, TRUE, response_time)
  \/ \E t \in FrontEndThreads, answer \in Answers : PostFresh(t, answer)
  \/ \E t \in FrontEndThreads, written \in BOOLEAN, response_time \in ResponseTimes :
       SaveCorrected(t, written, response_time)

SpecRace == InitRace /\ [][NextRace]_vars

\* ---------------------------------------------------------------------------
\* The fallback of find_previous_response on the food terms, on its own
\* ---------------------------------------------------------------------------

FoodQueries ==
  { "What wine pairs with steak?", "what pairs well with a good steak", "tell me about merlot",
    "which wine goes with this dish, sounds good" }

\* createdAt of the records the food-term search may return
MaxCreatedAt == 3

FoodMatchHits == 2

\* the lookup at line 1164: neither the direct get nor the text search gave a
\* match; hits is what a search on the food terms returns, should it be made
InitFood ==
  /\ Constructed
  /\ pure \in [op : {"food_match"}, stage : {"input"},
               normalized_query : {Strip(Lower(q)) : q \in FoodQueries},
               data_source_id : {data_sources["all_wines"]},
               hits : HitLists([response : Answers, createdAt : 1..MaxCreatedAt], FoodMatchHits)]

\* find_previous_response, lines 1164-1189
FindFoodMatch ==
  LET q == pure.normalized_query
      food_keywords == IF _is_food_pairing_query(q) THEN _extract_food_items(q) ELSE <<>>
      searched == _is_food_pairing_query(q) /\ food_keywords # <<>>
  IN  /\ pure.op = "food_match" /\ pure.stage = "input"
      /\ pure' = [op |-> "food_match", stage |-> "done", normalized_query |-> q,
                  data_source_id |-> pure.data_source_id, hits |-> pure.hits,
                  searched |-> searched,
                  filters |-> IF searched THEN "dataSourceID:" \o pure.data_source_id ELSE "",
                  returned |-> IF searched /\ pure.hits # <<>> THEN NewestHit(pure.hits) ELSE NoHit]
      /\ UNCHANGED assistant_vars

SpecFood == InitFood /\ [][FindFoodMatch]_vars

\* ---------------------------------------------------------------------------
\* The composite string of _generate_stable_id built for two tuples side by side
\* ---------------------------------------------------------------------------

\* essences, ids of data sources, ids of prompts and conversation ids, some of
\* them holding the delimiter or the prefix of the conversation component
CompositeInput ==
  [ query_essence   : {"a", "a|b"},
    data_source_id  : {"c", "b|c", data_sources["all_wines"]},
    prompt_id       : {"p", "p|conv_x"},
    conversation_id : {None, "x", "convA"} ]

InitComposite ==
  /\ Constructed
  /\ pure \in [op : {"composite"}, stage : {"input"}, left : CompositeInput, right : CompositeInput]

\* _generate_stable_id, lines 1741-1745, while self.conversation_id is the
\* tuple's conversation id
CompositeOf(input) ==
  components(input.query_essence, input.data_source_id, input.prompt_id, input.conversation_id)

BuildComposite ==
  /\ pure.op = "composite" /\ pure.stage = "input"
  /\ pure' = [op |-> "composite", stage |-> "done", left |-> pure.left, right |-> pure.right,
              left_components |-> CompositeOf(pure.left), right_components |-> CompositeOf(pure.right)]
  /\ UNCHANGED assistant_vars

SpecComposite == InitComposite /\ [][BuildComposite]_vars

KeysDistinctAcrossConversations ==
  ( /\ pure.op = "key" /\ pure.stage = "key"
    /\ pure.left.essence = pure.right.essence
    /\ pure.left.data_source_id = pure.right.data_source_id
    /\ pure.left.prompt_id = pure.right.prompt_id
    /\ pure.left.conversation_id # pure.right.conversation_id )
  => pure.left.key # pure.right.key

\* the same query keyed under no conversation and under conversation convA
KeyedWithAndWithoutConversation ==
  /\ pure.op = "key" /\ pure.stage = "key"
  /\ pure.left.essence = pure.right.essence
  /\ pure.left.data_source_id = pure.right.data_source_id
  /\ pure.left.prompt_id = pure.right.prompt_id
  /\ pure.left.conversation_id = None
  /\ pure.right.conversation_id = "convA"
  /\ pure.left.key # pure.right.key

\* C3: no cached answer crosses conversations.  Every record the lookup returned
\* to a request (by its key, by the text search or by the food-term search) had
\* been stored under the conversation the request was running under.
NoCrossConversationHit ==
  \A r \in replies : r.hit # NoHit => r.hit.conversationID = r.lookup_conv

\* C4: the text search returns no hit whose similarity to the query is at or below
\* 0.7, and no hit at all when the search returned none.
BestMatchAboveThreshold ==
  (pure.op = "best_match" /\ pure.stage = "done")
  => /\ pure.best_match # 0 =>
          HitSimilarity(pure.user_query_only, pure.hits[pure.best_match])[1] * 10
            > 7 * HitSimilarity(pure.user_query_only, pure.hits[pure.best_match])[2]
     /\ pure.hits = <<>> => pure.best_match = 0

\* a hit whose similarity is exactly 0.7 was passed over for a more similar one
ThresholdHitPassedOver ==
  /\ pure.op = "best_match" /\ pure.stage = "done"
  /\ pure.best_match # 0
  /\ \E k \in DOMAIN pure.hits :
       /\ k # pure.best_match
       /\ HitSimilarity(pure.user_query_only, pure.hits[k]) = <<7, 10>>

\* the two queries of Scenario A, keyed under the same data source and prompt and
\* no conversation
ScenarioAKeyed ==
  /\ pure.op = "key" /\ pure.stage = "key"
  /\ pure.left.query = "What wine pairs with steak?"
  /\ pure.right.query = "what pairs well with a good steak"
  /\ pure.left.data_source_id = pure.right.data_source_id
  /\ pure.left.prompt_id = pure.right.prompt_id
  /\ pure.left.conversation_id = None
  /\ pure.right.conversation_id = None

RateLimitedOnceRecorded ==
  \A r \in replies :
    r.failures = <<"rate_limit", "rate_limit", "rate_limit">>
    => /\ r.response = DegradedRateLimit
       /\ r.errors_logged = 1
       /\ ~r.logged_as_hit

\* C7: no update of a counter is lost.  Once every call of log_query has returned,
\* total_queries is the number of outcomes recorded, and cache_hits and
\* cache_misses are the numbers of hits and of misses recorded.
NoLostUpdates ==
  (\A t \in FrontEndThreads : recorder[t].pc = "idle")
  => /\ current_session.total_queries = Len(current_session.query_log)
     /\ current_session.cache_hits =
          Cardinality({k \in DOMAIN current_session.query_log : current_session.query_log[k].cache_hit})
     /\ current_session.cache_misses =
          Cardinality({k \in DOMAIN current_session.query_log : ~current_session.query_log[k].cache_hit})

\* C8: the context is scoped per conversation.  The context sent to the generation
\* service for a request quotes only messages exchanged in the request's own
\* conversation, and the key of a request that names its conversation was derived
\* with that conversation's id.
ContextScopedPerConversation ==
  \A c \in gen_calls :
    /\ \A o \in c.context_owners : o = c.conversationID
    /\ Truthy(c.cid_arg) => c.key_conversation = c.cid_arg

FlushedRecordsStay ==
  \A s \in flushed : \E k \in DOMAIN metrics_file : metrics_file[k] = s

\* C11: whenever the derived metrics are computed - for the running session after
\* any sequence of recorded hits, misses and errors, and for every session written
\* to the metrics file - the hit rate and the miss rate add up to 100 percent up to
\* one hundredth of a percent of rounding if the session has recorded a query, and
\* both are 0 if it has recorded none.
HitAndMissRatesAddUp ==
  \A derived \in {calculate_derived_metrics(current_session)}
                  \cup {metrics_file[k] : k \in DOMAIN metrics_file} :
    /\ derived.derived.computed
    /\ derived.total_queries > 0 =>
         derived.derived.cache_hit_rate + derived.derived.cache_miss_rate \in 9999..10001
    /\ derived.total_queries = 0 =>
         derived.derived.cache_hit_rate = 0 /\ derived.derived.cache_miss_rate = 0

\* a session of one hit, two misses and an error, whose rates are 33.33 and 66.67
RatesOfThirdsComputed ==
  /\ current_session.total_queries = 3
  /\ current_session.cache_hits = 1
  /\ current_session.api_errors = 1
  /\ calculate_derived_metrics(current_session).derived.cache_hit_rate = 3333
  /\ calculate_derived_metrics(current_session).derived.cache_miss_rate = 6667

\* the calls of the response index that failed while request r was processed
FailedCalls(r) == {r.store_failures[k] : k \in DOMAIN r.store_failures}

\* the generation call of the request that reply r answers
GenerationCalled(r) == \E g \in gen_calls : g.rid = r.rid

SaveFailureStillAnswers ==
  /\ \A r \in replies :
       "save" \in FailedCalls(r) =>
         /\ r.path = "generated"
         /\ r.response \in Answers
         /\ ~r.logged_as_hit
         /\ r.hit = NoHit
  /\ current_session.cache_misses = Cardinality({r \in replies : ~r.logged_as_hit})
  /\ current_session.total_queries = Cardinality(replies)

\* the one request was answered while its write failed and the index stayed empty
AnsweredWithoutWrite ==
  /\ responses = {}
  /\ current_session.cache_misses = 1
  /\ \E r \in replies :
       r.store_failures = <<"save">> /\ r.response = "Try a Malbec." /\ r.failures = <<>>

\* C14: every failure that a request absorbed - a call of the response index that
\* raised during the lookup or the write-back, a failed attempt of the generation
\* service - was recorded by a call of log_error.
AbsorbedFailuresLogged ==
  \A r \in replies : r.errors_logged >= Len(r.store_failures) + Len(r.failures)

\* C15: a request whose attempt failed with a server-class error was retried until
\* the attempts were used up: it either got its answer from a later attempt or
\* was degraded only after max_retries failed attempts.
ServerErrorRetried ==
  \A r \in replies :
    (\E k \in DOMAIN r.failures : r.failures[k] = "server_error") =>
      r.path \in {"generated", "retries_exhausted"} /\
      (r.path = "retries_exhausted" => Len(r.failures) = max_retries)

\* the delay before the next attempt after n failures that were retried
RECURSIVE BackedOff(_)
BackedOff(n) == IF n = 0 THEN initial_retry_delay ELSE 2 * BackedOff(n - 1)

\* C16: a client error that is not retryable ends the generation at the attempt it
\* occurs in, with no wait: it is the last failure of the request, the delay was
\* doubled only by the retried failures before it (not at all when it is the first
\* attempt, which is then the only one), and the reply is the degraded text.
ClientErrorNotRetried ==
  \A r \in replies : \A k \in DOMAIN r.failures :
    r.failures[k] = "client_error" =>
      /\ k = Len(r.failures)
      /\ r.retry_delay = BackedOff(k - 1)
      /\ r.path = "request_failed"
      /\ r.response = DegradedHttp
      /\ r.errors_logged = k

\* the first attempt failed with a client error: one attempt, the initial delay
\* untouched, the degraded text returned
ClientErrorAtFirstAttempt ==
  \E r \in replies :
    /\ r.failures = <<"client_error">>
    /\ r.retry_delay = initial_retry_delay
    /\ r.response = DegradedHttp
    /\ \E g \in gen_calls : g.rid = r.rid

\* C17: no request blocks indefinitely: whatever the generation service does, a
\* call of process_query makes at most max_retries attempts and then returns.
EveryRequestReturns ==
  /\ [](\A t \in Threads : req[t].pc # "idle" => Len(req[t].failures) < max_retries)
  /\ [](\A r \in replies : Len(r.failures) <= max_retries)
  /\ \A t \in Threads : (req[t].pc # "idle") ~> (req[t].pc = "idle")

\* C18: process_query never raises to its caller: every request that was accepted
\* and is no longer under way has returned a response, and every response - normal
\* or degraded, after whatever failure of the prompt selection, the lookup, the
\* generation or the write-back - has a text and carries the conversation id of the
\* assistant: the one the request found, and otherwise the one under which its
\* generation call was made.
NeverRaisesToCaller ==
  /\ \A rid \in 1..served :
       \/ \E t \in Threads : req[t].pc # "idle" /\ req[t].rid = rid
       \/ \E r \in replies : r.rid = rid
  /\ \A r \in replies :
       /\ r.response # ""
       /\ Truthy(r.lookup_conv) => r.conversationID = r.lookup_conv
       /\ r.path \in {"generated", "retries_exhausted", "request_failed"} =>
            /\ Truthy(r.conversationID)
            /\ \E g \in gen_calls : g.rid = r.rid /\ g.conversationID = r.conversationID
       /\ r.path = "exception" => r.conversationID = r.lookup_conv

\* a request whose lookup failed and whose three attempts of generation failed got
\* the degraded text with the conversation id generated for it, and a request that
\* named its conversation and whose prompt selection raised got a degraded text
\* with that conversation id
DegradedRepliesCarryConversation ==
  \E r1, r2 \in replies :
    /\ r1.path = "retries_exhausted" /\ r1.store_failures = <<"get", "search">>
    /\ r1.response = DegradedRetries /\ r1.conversationID = "conv-0000000a"
    /\ r2.path = "exception" /\ r2.response = DegradedGeneric
    /\ r2.cid_arg = "convA" /\ r2.conversationID = "convA"

\* C20: the query string built for the generation service is at most 512 bytes in
\* UTF-8, for every query text and every history.
FullQueryWithin512Bytes ==
  (pure.op = "context" /\ pure.stage = "full_query") => Utf8Len(pure.full_query) <= 512

\* C19: a query with nothing in it is rejected before key derivation: no request
\* with such a query is ever under way, no key is derived and no generation call
\* is made for one, and no hit or miss is logged for one.
EmptyQueryRejected ==
  /\ \A t \in Threads : req[t].pc # "idle" => req[t].raw_query \notin EmptyQueries
  /\ \A k \in DOMAIN keys_derived : keys_derived[k].essence # _get_query_essence("")
  /\ \A g \in gen_calls : UserPart(g.query) \notin EmptyQueries
  /\ \A k \in DOMAIN current_session.query_log : current_session.query_log[k].query \notin EmptyQueries

\* ---------------------------------------------------------------------------
\* Properties of the hit path, the log and the similarity measure
\* ---------------------------------------------------------------------------

\* the replies that were answered from the response index
HitReplies == {r \in replies : r.hit # NoHit}

\* C21: a request answered from the cache returns the stored text together with
\* the conversation id that was in effect when its lookup started (none when
\* there was none), and the hit leaves that conversation id as it was.
HitKeepsAmbientConversation ==
  \A r \in HitReplies :
    /\ r.response = r.hit.response
    /\ r.conversationID = r.lookup_conv

\* C22: the cache-hit flag the /api/query route returns for a request is true
\* exactly when that request was answered from the cache and logged as a hit,
\* whatever requests came before it.
CacheHitFlagIsOfTheRequest ==
  pure.op = "api" =>
    \A k \in 1..Len(pure.returned) :
      \A r \in replies :
        r.rid = pure.returned[k].rid => pure.returned[k].cache_hit = r.logged_as_hit

\* the key under which a request stored or looked up its answer
KeyOfRequest(rid) ==
  keys_derived[MinOf({k \in DOMAIN keys_derived : keys_derived[k].rid = rid})].key

\* the replies whose generated answer was written to the response index
WrittenReplies ==
  {r \in replies : r.path = "generated"
                   /\ \A k \in DOMAIN r.store_failures : r.store_failures[k] # "save"}

\* C23: writing a cached answer again under a key that is already stored leaves
\* exactly one record that can be retrieved under that key, and it holds what
\* the latest write stored.
StoreTwiceKeepsLatestOnly ==
  /\ \A o1, o2 \in responses : o1.objectID = o2.objectID => o1 = o2
  /\ \A r \in WrittenReplies :
       \E o \in responses :
         /\ o.objectID = KeyOfRequest(r.rid)
         /\ (\A r2 \in WrittenReplies : KeyOfRequest(r2.rid) = o.objectID => r2.rid <= r.rid)
              => /\ o.response = r.response
                 /\ o.conversationID = r.conversationID
                 /\ (\A r2 \in WrittenReplies : r2.rid <= r.rid) => o.createdAt = clock

\* the same answer was written twice under one key, and the index holds the one
\* record of the second write
SameKeyWrittenTwice ==
  \E r1, r2 \in WrittenReplies :
    /\ r1.rid < r2.rid
    /\ KeyOfRequest(r1.rid) = KeyOfRequest(r2.rid)
    /\ r1.response = r2.response
    /\ clock = 2
    /\ \E o \in responses : responses = {o} /\ o.createdAt = 2 /\ o.response = r2.response

\* a cap for the rolling log of a session; the source names none, and any cap
\* below the number of queries of a session is exceeded in the same way
AssumedLogCap == 5

\* C24: the rolling log of query outcomes of a session never holds more than a
\* fixed number of entries, however many queries are recorded.
QueryLogBounded == Len(current_session.query_log) <= AssumedLogCap

\* the log holds an entry for every query recorded in the session
QueryLogKeepsEveryQuery == Len(current_session.query_log) = current_session.total_queries

\* C25: logging an error adds exactly one to the error counter and one entry to
\* the error details, and leaves the query total, the hit and miss counters,
\* the latency lists and the per-category table as they were.
LogErrorChangesOnlyErrors ==
  [][current_session'.api_errors > current_session.api_errors =>
       /\ current_session'.api_errors = current_session.api_errors + 1
       /\ Len(current_session'.errors) = Len(current_session.errors) + 1
       /\ current_session'.total_queries = current_session.total_queries
       /\ current_session'.cache_hits = current_session.cache_hits
       /\ current_session'.cache_misses = current_session.cache_misses
       /\ current_session'.response_times = current_session.response_times
       /\ current_session'.cache_hit_times = current_session.cache_hit_times
       /\ current_session'.generation_times = current_session.generation_times
       /\ current_session'.query_types = current_session.query_types
       /\ current_session'.query_log = current_session.query_log]_vars

\* an error was logged in a session that had recorded a hit and a miss, which
\* are still all it has recorded
ErrorLoggedAmongQueries ==
  /\ current_session.api_errors = 1
  /\ Len(current_session.errors) = 1
  /\ current_session.errors[1].type = "API Error"
  /\ current_session.total_queries = 2
  /\ current_session.cache_hits = 1
  /\ current_session.cache_misses = 1
  /\ Len(current_session.response_times) = 2

\* a text in lower case with the role markers taken out
WithoutMarkers(text) == Strip(Replace(Replace(Lower(text), "assistant:", ""), "user:", ""))

\* C26: two query texts that differ only by letter case or by role markers
\* ("user:", "assistant:") written into them have the same essence and, with the
\* same data source, prompt and conversation, the same cache key.
CaseAndMarkersNormalizeAway ==
  (pure.op = "markers" /\ pure.stage = "key"
     /\ WithoutMarkers(pure.left) = WithoutMarkers(pure.right)) =>
    /\ pure.left_essence = pure.right_essence
    /\ pure.left_key = pure.right_key

\* two texts that differ only by letter case have the same essence and key
CaseNormalizesAway ==
  (pure.op = "markers" /\ pure.stage = "key" /\ Lower(pure.left) = Lower(pure.right)) =>
    /\ pure.left_essence = pure.right_essence
    /\ pure.left_key = pure.right_key

\* the fraction <<numerator, denominator>> is 1.0
IsOne(fraction) == fraction[2] > 0 /\ fraction[1] = fraction[2]

SimilarityDone == pure.op = "similarity" /\ pure.stage = "done"

\* C27: the similarity of any query string with itself is 1.0.
SelfSimilarityIsOne == SimilarityDone => IsOne(pure.itself)

\* C27, for the texts that hold a word: the similarity of a text with at least
\* one character that is not white space with itself is 1.0 (and 0.0 for a text
\* with none).
SelfSimilarityOfWordsIsOne ==
  SimilarityDone =>
    IF Strip(pure.text1) # "" THEN IsOne(pure.itself) ELSE pure.itself[1] = 0

\* a question of five words compared with itself
QuestionComparedWithItself ==
  /\ SimilarityDone
  /\ pure.text1 = "What wine pairs with steak?"
  /\ pure.itself = <<5, 5>>

\* C28: the similarity is symmetric: comparing text1 with text2 gives what
\* comparing text2 with text1 gives.
SimilarityIsSymmetric == SimilarityDone => pure.forward = pure.backward

\* two texts of five words with four in common, compared in both orders
PartlyAlikeComparedBothWays ==
  /\ SimilarityDone
  /\ pure.text1 = "What wine pairs with steak?"
  /\ pure.text2 = "what wine pairs with lamb"
  /\ pure.forward = <<4, 6>>
  /\ pure.backward = <<4, 6>>

\* C29: when the direct lookup finds nothing and the text searches return no
\* candidate (here: the response index holds no record), the lookup returns no
\* match and the request goes on to generation.
EmptyPoolGoesToGeneration ==
  responses = {} =>
    /\ \A r \in replies :
         /\ r.hit = NoHit /\ ~r.logged_as_hit
         /\ r.path # "exception" => GenerationCalled(r)
    /\ \A t \in Threads :
         req[t].pc \in {"post", "save"} => \E g \in gen_calls : g.rid = req[t].rid

\* a food-pairing question was asked of an empty index: the direct lookup, the
\* text search and the search for the food words found nothing, and the answer
\* was generated
PairingQuestionOfEmptyIndex ==
  /\ responses = {}
  /\ \E r \in replies :
       /\ r.rid = 1 /\ r.raw_query = "What wine pairs with steak?"
       /\ r.path = "generated" /\ r.hit = NoHit /\ ~r.logged_as_hit
       /\ \E g \in gen_calls : g.rid = 1 /\ g.query = ContextStart \o "\n\nUser: What wine pairs with steak?"
  /\ current_session.algolia_operations.search_operations = 2

\* C30: every request records exactly one query outcome before it responds: the
\* step that returns the reply adds one to the total and one to exactly one of
\* the hit and miss counters (the hit counter exactly when the reply came from
\* the cache), on the hit path, after a generation that succeeded or failed and
\* in the exception handler; no other step of a request touches the counters.
OneOutcomePerRequest ==
  [][LET old == current_session
         new == current_session'
     IN  IF replies' # replies
         THEN /\ Cardinality(replies' \ replies) = 1
              /\ new.total_queries = old.total_queries + 1
              /\ new.cache_hits + new.cache_misses = old.cache_hits + old.cache_misses + 1
              /\ \A r \in replies' \ replies :
                   /\ new.cache_hits = old.cache_hits + (IF r.logged_as_hit THEN 1 ELSE 0)
                   /\ r.logged_as_hit <=> r.hit # NoHit
                   /\ Len(new.query_log) = Len(old.query_log) + 1
                   /\ new.query_log[Len(new.query_log)].cache_hit = r.logged_as_hit
         ELSE /\ new.total_queries = old.total_queries
              /\ new.cache_hits = old.cache_hits
              /\ new.cache_misses = old.cache_misses]_vars

\* a request whose prompt selection raised and one whose generation failed were
\* both answered, and each recorded one miss
FailedRequestsRecordedAsMisses ==
  /\ \E r1, r2 \in replies :
       /\ r1.path = "exception" /\ r2.path = "request_failed" /\ r1.rid # r2.rid
  /\ current_session.total_queries = 2
  /\ current_session.cache_misses = 2
  /\ current_session.cache_hits = 0
  /\ Len(current_session.query_log) = 2

\* ---------------------------------------------------------------------------
\* Properties of the write path, the fallback search and the composite of the key
\* ---------------------------------------------------------------------------

\* C31: in requests made one after the other, once a request has missed, had its
\* answer generated and written it to the response index, a later request with
\* the same key (the same query text, data source, prompt and conversation) is
\* answered by the direct lookup as a cache hit and makes no generation call.
OneGenerationPerKey ==
  \A r1, r2 \in replies :
    (r1.rid < r2.rid /\ r1.written /\ r2.path # "exception"
       /\ KeyOfRequest(r1.rid) = KeyOfRequest(r2.rid)) =>
      /\ r2.path = "direct"
      /\ r2.hit.objectID = KeyOfRequest(r2.rid)
      /\ r2.logged_as_hit
      /\ ~GenerationCalled(r2)

\* the same question was asked twice in the conversation convA: the first answer
\* was generated and written, the second came from the direct lookup, and one
\* generation call was made
RepeatedQuestionHitsDirectly ==
  \E r1, r2 \in replies :
    /\ r1.rid = 1 /\ r2.rid = 2 /\ r2.path # "exception"
    /\ r1.cid_arg = "convA" /\ r2.cid_arg = "convA"
    /\ r1.raw_query = r2.raw_query
    /\ r1.written /\ r1.path = "generated"
    /\ KeyOfRequest(1) = KeyOfRequest(2)
    /\ r2.path = "direct" /\ r2.response = r1.response
    /\ Cardinality(gen_calls) = 1

\* the key call of request rid as process_query made it
KeyCallOfRequest(rid) ==
  keys_derived[MinOf({k \in DOMAIN keys_derived : keys_derived[k].rid = rid})]

\* C32: after a generation that succeeded and was written, the record stored
\* under the key of the request carries the prompt id and the data source id the
\* request used, whatever identifiers the generation service returned, and it
\* is the only record under that key.
StoredRecordAttributedToRequest ==
  pure.op = "backend" =>
    \A r \in replies :
      (r.written /\ \A r2 \in replies : r2.written /\ KeyOfRequest(r2.rid) = KeyOfRequest(r.rid)
                                          => r2.rid <= r.rid) =>
        \E o \in responses :
          /\ o.objectID = KeyOfRequest(r.rid)
          /\ o.promptID = KeyCallOfRequest(r.rid).prompt_id
          /\ o.dataSourceID = KeyCallOfRequest(r.rid).data_source_id
          /\ o.response = r.response
          /\ \A o2 \in responses : o2.objectID = o.objectID => o2 = o

\* the service returned its own prompt, data source and object identifiers with
\* the answer, and the record written is under the key of the request with the
\* prompt and the data source of the request
BackendIdentifiersNotStored ==
  /\ pure.op = "backend"
  /\ \E b \in pure.returned :
       /\ b.rid = 1
       /\ b.data.promptID = "prompt_of_backend" /\ b.data.dataSourceID = "ds_of_backend"
  /\ \E r \in replies : r.rid = 1 /\ r.written
  /\ \E o \in responses :
       /\ o.objectID = KeyOfRequest(1)
       /\ o.promptID \in {prompts[k] : k \in DOMAIN prompts}
       /\ o.dataSourceID = data_sources["all_wines"]

\* the positions of a request inside find_previous_response
LookupSteps == {"lookup", "search", "food_search"}

\* C33: a request answered from the cache makes no generation call and writes
\* nothing to the response index, and no step of the lookup (direct get, text
\* search, food-term search) writes to the index.
HitNeitherGeneratesNorWrites ==
  [][/\ (\E t \in Threads : req[t].pc \in LookupSteps /\ req'[t] # req[t]) =>
          /\ responses' = responses
          /\ clock' = clock
     /\ \A r \in replies' \ replies :
          r.hit # NoHit =>
            /\ responses' = responses
            /\ gen_calls' = gen_calls
            /\ \A g \in gen_calls : g.rid # r.rid
            /\ ~r.written]_vars

\* a stored answer was returned by the text search to a later request: the index
\* holds the one record written before, and one generation call was made
FuzzyHitLeftStoreAlone ==
  \E r1, r2 \in replies :
    /\ r1.rid = 1 /\ r1.written
    /\ r2.rid = 2 /\ r2.path = "fuzzy" /\ r2.hit.objectID = KeyOfRequest(1)
    /\ KeyOfRequest(2) # KeyOfRequest(1)
    /\ Cardinality(responses) = 1 /\ clock = 1
    /\ Cardinality(gen_calls) = 1

\* the replies of requests that wrote their answer under the key of reply r
WritersOfKey(r) == {w \in replies : w.written /\ KeyOfRequest(w.rid) = KeyOfRequest(r.rid)}

\* C34: when two requests with the same key are under way together, both miss,
\* both have an answer generated and both write it, the index ends with exactly
\* one record under that key, the one of the write that ran last, and both
\* requests return an answer.
LastWriteWinsUnderOneKey ==
  \A r1, r2 \in replies :
    (r1.rid # r2.rid /\ r1.written /\ r2.written /\ KeyOfRequest(r1.rid) = KeyOfRequest(r2.rid)) =>
      /\ Truthy(r1.response) /\ Truthy(r2.response)
      /\ r1.path = "generated" /\ r2.path = "generated"
      /\ \E o \in responses :
           /\ \A o2 \in responses : o2.objectID = KeyOfRequest(r1.rid) <=> o2 = o
           /\ o.createdAt = MaxOf({w.written_at : w \in WritersOfKey(r1)})
           /\ \E w \in WritersOfKey(r1) : w.written_at = o.createdAt /\ w.response = o.response

\* two requests with one key both missed, both made a generation call and both
\* wrote, which takes the second to have looked up before the first wrote; the
\* index holds the one record of the second write
BothMissedBothWrote ==
  /\ \E r1, r2 \in replies :
       /\ r1.rid = 1 /\ r2.rid = 2
       /\ KeyOfRequest(1) = KeyOfRequest(2)
       /\ r1.written /\ r2.written
       /\ r1.hit = NoHit /\ r2.hit = NoHit
       /\ GenerationCalled(r1) /\ GenerationCalled(r2)
  /\ clock = 2
  /\ \E o \in responses : responses = {o} /\ o.createdAt = 2

\* C35: the match the text search returns has the greatest similarity to the
\* query among the hits of the search: no other hit scores strictly higher.
BestMatchHasMaximumSimilarity ==
  (pure.op = "best_match" /\ pure.stage = "done" /\ pure.best_match # 0)
  => /\ pure.best_score = HitSimilarity(pure.user_query_only, pure.hits[pure.best_match])
     /\ \A k \in DOMAIN pure.hits :
          ~FracGT(HitSimilarity(pure.user_query_only, pure.hits[k]), pure.best_score)

\* the second hit was returned although the first, less similar, was above the
\* threshold too
LaterHitMoreSimilar ==
  /\ pure.op = "best_match" /\ pure.stage = "done"
  /\ pure.best_match = 2
  /\ FracGT(HitSimilarity(pure.user_query_only, pure.hits[1]), SimilarityThreshold)
  /\ FracGT(pure.best_score, HitSimilarity(pure.user_query_only, pure.hits[1]))

\* C36: for a food-pairing query with at least one food term, for which neither
\* the direct get nor the text search gave a match, the lookup returns the most
\* recently created hit of the search on the food terms, which is restricted to
\* the data source of the request, whatever the hit's similarity; for a query
\* that is not a food-pairing one the search on the food terms is not made.
FoodFallbackReturnsNewest ==
  (pure.op = "food_match" /\ pure.stage = "done") =>
    /\ pure.searched <=> (/\ _is_food_pairing_query(pure.normalized_query)
                          /\ _extract_food_items(pure.normalized_query) # <<>>)
    /\ pure.searched => pure.filters = "dataSourceID:" \o pure.data_source_id
    /\ (pure.searched /\ pure.hits # <<>>) =>
         /\ \E k \in DOMAIN pure.hits : pure.hits[k] = pure.returned
         /\ \A k \in DOMAIN pure.hits : pure.hits[k].createdAt <= pure.returned.createdAt
    /\ (~pure.searched \/ pure.hits = <<>>) => pure.returned = NoHit

\* the search on the food terms of a pairing question returned an older record
\* ahead of a newer one, and the newer one was returned
NewerSecondHitReturned ==
  /\ pure.op = "food_match" /\ pure.stage = "done"
  /\ pure.searched
  /\ Len(pure.hits) = 2
  /\ pure.hits[1].createdAt < pure.hits[2].createdAt
  /\ pure.returned = pure.hits[2]

\* the counters and the lists of a session agree with each other
SessionConsistent(session) ==
  /\ session.total_queries = session.cache_hits + session.cache_misses
  /\ Len(session.cache_hit_times) = session.cache_hits
  /\ Len(session.generation_times) = session.cache_misses
  /\ Len(session.response_times) = session.total_queries
  /\ \A k \in DOMAIN session.query_types :
       session.query_types[k].total = session.query_types[k].hits + session.query_types[k].misses

\* C37: whenever no call of log_query is under way, the session metrics agree
\* with each other: total_queries = cache_hits + cache_misses, the list of hit
\* latencies has cache_hits entries, the list of miss latencies has cache_misses
\* entries, the list of all latencies has total_queries entries, and every
\* per-category entry has total = hits + misses.
SessionMetricsConsistent ==
  (\A t \in FrontEndThreads : recorder[t].pc = "idle") => SessionConsistent(current_session)

\* the same of a session recorded by one caller at a time, resets included
SessionMetricsConsistentInTurn == SessionConsistent(current_session)

\* the reply of the request that wrote record o
WriterOf(o) == CHOOSE w \in replies : w.written /\ w.written_at = o.createdAt

\* C38: every record the write path stores is consistent with itself: its
\* objectID is the key derived from the essence of the query text of the request
\* that wrote it and the record's own dataSourceID, promptID and conversationID.
StoredRecordsSelfConsistent ==
  \A o \in responses :
    o.objectID = _generate_stable_id(EssenceOf[WriterOf(o).raw_query], o.dataSourceID, o.promptID,
                                     o.conversationID)

\* the data source and the prompt of a stored record are those its key was
\* derived with
StoredKeyOfOwnSourceAndPrompt ==
  \A o \in responses :
    \E conv \in {None, o.conversationID} :
      o.objectID = _generate_stable_id(EssenceOf[WriterOf(o).raw_query], o.dataSourceID, o.promptID, conv)

\* the texts the assistant answers with when it has no answer of the service
DegradedMessages ==
  {DegradedHttp, DegradedRetries, DegradedFilters, DegradedRateLimit, DegradedTimeout, DegradedGeneric}

\* the ways a request ends without an answer of the generation service
FailurePaths == {"request_failed", "retries_exhausted", "exception"}

\* C39: a degraded message is never stored as an answer: a request that ends on
\* a failure path of the generation writes no record, no record of the index
\* holds a degraded message, and no lookup returns one as a cached answer.
DegradedNeverPersisted ==
  /\ \A o \in responses : o.response \notin DegradedMessages
  /\ \A r \in replies :
       /\ (r.path \in FailurePaths \/ r.response \in DegradedMessages) => (~r.written /\ r.hit = NoHit)
       /\ r.hit # NoHit => (r.hit.response \notin DegradedMessages /\ r.response \notin DegradedMessages)
  /\ Cardinality({r \in replies : r.written}) = clock

\* a request ended with the error text of a failed generation, and the next
\* request, with the same question, found nothing stored and had its answer
\* generated and written
FailedThenGeneratedAfresh ==
  \E r1, r2 \in replies :
    /\ r1.rid = 1 /\ r2.rid = 2
    /\ r1.raw_query = r2.raw_query
    /\ r1.path = "request_failed" /\ r1.response = DegradedHttp
    /\ r2.path = "generated" /\ r2.written /\ r2.hit = NoHit
    /\ \E o \in responses : responses = {o} /\ o.response = r2.response

\* C40: the composite string that _generate_stable_id hashes is injective: two
\* different tuples of essence, data source id, prompt id and conversation id
\* (or none) never give the same string, also when a component holds the
\* delimiter "|" or the text "conv_".
CompositeInjective ==
  (pure.op = "composite" /\ pure.stage = "done")
  => (pure.left_components = pure.right_components => pure.left = pure.right)

\* a tuple none of whose components holds the delimiter
DelimiterFree(input) ==
  /\ ~Contains(input.query_essence, "|")
  /\ ~Contains(input.data_source_id, "|")
  /\ ~Contains(input.prompt_id, "|")
  /\ ~Contains(input.conversation_id, "|")

\* two different tuples none of whose components holds the delimiter give
\* different composite strings
CompositeInjectiveWithoutDelimiter ==
  (pure.op = "composite" /\ pure.stage = "done" /\ DelimiterFree(pure.left) /\ DelimiterFree(pure.right))
  => (pure.left_components = pure.right_components => pure.left = pure.right)
====
